---------------------------- MODULE Spec2Model ----------------------------
(***************************************************************************)
(* The SwingSet collection manager (collectionManager.js): persistent     *)
(* map/set collections kept in the vat store under sortable encoded keys. *)
(*                                                                         *)
(* Strings are sequences of one-character strings, compared by character  *)
(* code as JavaScript compares strings.  A number key is its IEEE-754     *)
(* bit pattern written as 16 hex digits (what the Float64Array /          *)
(* BigUint64Array union exposes); a bigint key is its sign and the        *)
(* decimal digits of its magnitude.                                        *)
(***************************************************************************)
EXTENDS Integers, Sequences, FiniteSets, TLC

(***************************************************************************)
(* Characters and strings                                                  *)
(***************************************************************************)

\* The characters the model uses, in ascending character-code order.
Chars ==
  << "+", "-", ".", "/",
     "0", "1", "2", "3", "4", "5", "6", "7", "8", "9", ":",
     "L", "M", "N", "a", "b", "c", "d", "e", "f", "g", "h", "i", "j", "k", "l",
     "m", "n", "o", "p", "q", "r", "s", "t", "u", "v", "w", "x", "y", "z",
     "{", "|", "~" >>

CharCode == [c \in {Chars[i] : i \in 1..Len(Chars)} |->
               CHOOSE i \in 1..Len(Chars) : Chars[i] = c]

CharLt(a, b) == CharCode[a] < CharCode[b]

Max(a, b) == IF a > b THEN a ELSE b
Min(a, b) == IF a < b THEN a ELSE b

\* a < b as JavaScript compares strings.
RECURSIVE StrLtFrom(_, _, _)
StrLtFrom(a, b, i) ==
  IF i > Len(a) THEN i <= Len(b)
  ELSE IF i > Len(b) THEN FALSE
  ELSE IF a[i] = b[i] THEN StrLtFrom(a, b, i + 1)
  ELSE CharLt(a[i], b[i])

StrLt(a, b) == StrLtFrom(a, b, 1)
StrLe(a, b) == a = b \/ StrLt(a, b)

StartsWith(s, p) == Len(p) <= Len(s) /\ SubSeq(s, 1, Len(p)) = p

\* str.substring(from), from counted from 0.
Substring(s, from) == SubSeq(s, from + 1, Len(s))

Digits == << "0", "1", "2", "3", "4", "5", "6", "7", "8", "9" >>
HexDigits == Digits \o << "a", "b", "c", "d", "e", "f" >>

DigitVal(c) == CHOOSE d \in 0..15 : HexDigits[d + 1] = c

\* n.toString() of a non-negative integer.
RECURSIVE NatToString(_)
NatToString(n) ==
  IF n < 10 THEN << Digits[n + 1] >>
  ELSE Append(NatToString(n \div 10), Digits[(n % 10) + 1])

\* BigInt(numstr) / Number.parseInt(numstr, 10) of a string of decimal digits.
RECURSIVE StringToNat(_)
StringToNat(s) ==
  IF s = << >> THEN 0
  ELSE 10 * StringToNat(SubSeq(s, 1, Len(s) - 1)) + DigitVal(s[Len(s)])

\* What toString leaves of a digit string: no leading zeros, "0" for zero.
RECURSIVE StripLeadingZeros(_)
StripLeadingZeros(s) ==
  IF Len(s) > 1 /\ s[1] = "0" THEN StripLeadingZeros(Tail(s)) ELSE s

\* The digits of n + 1 for the number n with these digits (leading zeros
\* kept).
RECURSIVE DecInc(_)
DecInc(s) ==
  IF s = << >> THEN << "1" >>
  ELSE IF s[Len(s)] = "9" THEN Append(DecInc(SubSeq(s, 1, Len(s) - 1)), "0")
  ELSE Append(SubSeq(s, 1, Len(s) - 1), Digits[DigitVal(s[Len(s)]) + 2])

Zeros18 == [i \in 1..18 |-> "0"]

zeroPad(n, size) ==
  LET str == Zeros18 \o n
  IN  SubSeq(str, Max(Len(str) - size, 0) + 1, Len(str))

(***************************************************************************)
(* Passable keys                                                           *)
(***************************************************************************)

\* A bigint: its sign and the decimal digits of its magnitude, as toString
\* writes them.
BigInt(n) == [neg |-> n < 0, digits |-> NatToString(IF n < 0 THEN -n ELSE n)]

\* A key: its pass style, a string payload and (for a bigint, whose payload
\* is the digits of its magnitude) the sign.
Key(t, v, n) == [t |-> t, v |-> v, n |-> n]
KNull == Key("null", << >>, 0)
KUndefined == Key("undefined", << >>, 0)
KBool(b) == Key("boolean", IF b THEN << "t", "r", "u", "e" >>
                                ELSE << "f", "a", "l", "s", "e" >>, 0)
KNum(bits) == Key("number", bits, 0)
KBigOf(big) == Key("bigint", big.digits, IF big.neg THEN -1 ELSE 1)
KBig(n) == KBigOf(BigInt(n))
BigOf(key) == [neg |-> key.n < 0, digits |-> key.v]
KStr(s) == Key("string", s, 0)
KSym(name) == Key("symbol", name, 0)
KRem(slot) == Key("remotable", slot, 0)

passStyleOf(key) == key.t

(***************************************************************************)
(* Number codec                                                            *)
(***************************************************************************)

NaNBits == << "7", "f", "f", "8" >> \o [i \in 1..12 |-> "0"]
NegZeroBits == << "8" >> \o [i \in 1..15 |-> "0"]
PosZeroBits == [i \in 1..16 |-> "0"]

IsNaNBits(bits) ==
  /\ DigitVal(bits[1]) % 8 = 7
  /\ bits[2] = "f"
  /\ bits[3] = "f"
  /\ \E i \in 4..16 : bits[i] # "0"

\* The number read back from asNumber[0]: every NaN is the one NaN.
BitsToNumber(bits) == IF IsNaNBits(bits) THEN NaNBits ELSE bits

\* n < 0 for the number with these bits.
NumberIsNegative(bits) ==
  DigitVal(bits[1]) >= 8 /\ ~IsNaNBits(bits) /\ bits # NegZeroBits

XorAll(bits) == [i \in 1..Len(bits) |-> HexDigits[(15 - DigitVal(bits[i])) + 1]]
XorSign(bits) ==
  [i \in 1..Len(bits) |->
     IF i = 1 THEN HexDigits[((DigitVal(bits[1]) + 8) % 16) + 1] ELSE bits[i]]

numberToDBEntryKey(n) ==
  LET bits == IF NumberIsNegative(n) THEN XorAll(n) ELSE XorSign(n)
  IN  << "f" >> \o zeroPad(StripLeadingZeros(bits), 16)

dbEntryKeyToNumber(k) ==
  LET raw == Substring(k, 1)
      bits == IF CharLt(k[1], "8") THEN XorAll(raw) ELSE XorSign(raw)
  IN  BitsToNumber(bits)

(***************************************************************************)
(* Bigint codec                                                            *)
(***************************************************************************)

BIGINT_TAG_LEN == 10

\* (BIGINT_LEN_MODULUS - len).toString(), for 1 <= len: the digits of
\* 10^10 - len are the nines' complement of the ten digits of len - 1.
LenModulusMinus(len) ==
  LET d == zeroPad(NatToString(len - 1), BIGINT_TAG_LEN)
  IN  StripLeadingZeros([i \in 1..Len(d) |-> Digits[(9 - DigitVal(d[i])) + 1]])

\* The digits of 10^Len(d) - n for the number n that the digits d write
\* (leading zeros allowed): the nines' complement of d, plus one.
ModulusMinus(d) ==
  DecInc([i \in 1..Len(d) |-> Digits[(9 - DigitVal(d[i])) + 1]])

\* BigInt(numstr).toString() for a string of decimal digits.
BigIntString(numstr) ==
  IF numstr = << >> THEN << "0" >> ELSE StripLeadingZeros(numstr)

bigintToDBEntryKey(n) ==
  IF n.neg
  THEN LET raw == n.digits
           numstr == BigIntString(ModulusMinus(raw))
           lenTag == zeroPad(LenModulusMinus(Len(raw)), BIGINT_TAG_LEN)
       IN  << "n" >> \o lenTag \o << ":" >> \o zeroPad(numstr, Len(raw))
  ELSE LET numstr == n.digits
       IN  << "p" >> \o zeroPad(NatToString(Len(numstr)), BIGINT_TAG_LEN)
             \o << ":" >> \o numstr

dbEntryKeyToBigint(k) ==
  LET numstr == Substring(k, BIGINT_TAG_LEN + 2)
  IN  IF k[1] = "n"
      THEN [neg |-> TRUE, digits |-> BigIntString(ModulusMinus(numstr))]
      ELSE [neg |-> FALSE, digits |-> BigIntString(numstr)]

(***************************************************************************)
(* External collaborators: vat store, marshal, pattern kit                 *)
(***************************************************************************)

\* What vatstoreGet returns for a missing row.
Undefined == [body |-> << "undefined" >>, slots |-> << >>]

\* A row holding a plain string (label, ordinal, nextOrdinal).
Raw(str) == [body |-> str, slots |-> << >>]

vatstoreGet(st, k) == IF k \in DOMAIN st THEN st[k] ELSE Undefined
vatstoreSet(st, k, v) == [x \in DOMAIN st \cup {k} |-> IF x = k THEN v ELSE st[x]]
vatstoreDelete(st, k) == [x \in DOMAIN st \ {k} |-> st[x]]

\* The least element of a non-empty set of strings.
StrMin(S) == CHOOSE k \in S : \A o \in S : StrLe(k, o)

\* vatstoreGetAfter with an upper bound: the smallest key after priorKey in
\* [lowerBound, upperBound), as << key, row >>, or << >> when there is none.
vatstoreGetAfter(st, priorKey, lowerBound, upperBound) ==
  LET First(k) == << k, st[k] >>
      Pick(S) == IF S = {} THEN << >> ELSE First(StrMin(S))
  IN  Pick({k \in DOMAIN st : /\ StrLt(priorKey, k)
                              /\ StrLe(lowerBound, k)
                              /\ StrLt(k, upperBound)})

\* vatstoreGetAfter of a vat store that does not enforce upperBound: the
\* smallest key after priorKey from lowerBound on.
vatstoreGetAfterFrom(st, priorKey, lowerBound) ==
  LET First(k) == << k, st[k] >>
      Pick(S) == IF S = {} THEN << >> ELSE First(StrMin(S))
  IN  Pick({k \in DOMAIN st : StrLt(priorKey, k) /\ StrLe(lowerBound, k)})

\* vatstoreGetAfter without an upper bound: the keys that start with
\* lowerBound.
vatstoreGetAfterPrefix(st, priorKey, lowerBound) ==
  LET First(k) == << k, st[k] >>
      Pick(S) == IF S = {} THEN << >> ELSE First(StrMin(S))
  IN  Pick({k \in DOMAIN st : StrLt(priorKey, k) /\ StartsWith(k, lowerBound)})

\* getSlotForVal / getValForSlot: a remotable and its slot name each other.
getSlotForVal(remotable) == remotable.v
getValForSlot(slot) == KRem(slot)

nameForPassableSymbol(key) == key.v
passableSymbolForName(name) == KSym(name)

\* marshal: the capdata of a passable value.  Values are strings, null and
\* remotables; a remotable is the body's reference to slot 0.
serialize(value) ==
  CASE passStyleOf(value) = "remotable" ->
         [body |-> << "$", "0" >>, slots |-> << getSlotForVal(value) >>]
    [] passStyleOf(value) = "null" ->
         [body |-> << "n", "u", "l", "l" >>, slots |-> << >>]
    [] OTHER ->
         [body |-> << "\"" >> \o value.v \o << "\"" >>, slots |-> << >>]

\* serialize throws on a value marshal cannot pass, such as an object that
\* is not frozen.
KNotPassable == Key("notPassable", << >>, 0)
serializeThrows(value) == passStyleOf(value) = "notPassable"

unserialize(capdata) ==
  CASE capdata.body[1] = "$" -> getValForSlot(capdata.slots[1])
    [] capdata.body[1] = "n" -> KNull
    [] OTHER -> KStr(SubSeq(capdata.body, 2, Len(capdata.body) - 1))

\* Patterns: M.any(), M.scalar(), the pass-style patterns M.number(), ... and
\* a key taken as a pattern, which matches that key alone.
MAny == [m |-> "any", k |-> "", key |-> Key("undefined", << >>, 0)]
MScalar == [m |-> "scalar", k |-> "", key |-> Key("undefined", << >>, 0)]
MKind(style) == [m |-> "kind", k |-> style, key |-> Key("undefined", << >>, 0)]
MKey(key) == [m |-> "key", k |-> "", key |-> key]

ScalarStyles == {"null", "undefined", "boolean", "number", "bigint", "string",
                 "symbol", "remotable"}

matches(specimen, patt) ==
  CASE patt.m = "any" -> TRUE
    [] patt.m = "scalar" -> passStyleOf(specimen) \in ScalarStyles
    [] patt.m = "key" -> specimen = patt.key
    [] OTHER -> passStyleOf(specimen) = patt.k

pattEq(p1, p2) == p1 = p2

StyleTag(style) ==
  CASE style = "null" -> "z"
    [] style = "undefined" -> "u"
    [] style = "number" -> "f"
    [] style = "string" -> "s"
    [] style = "boolean" -> "b"
    [] style = "bigint" -> "n"
    [] style = "remotable" -> "r"
    [] OTHER -> "y"

\* getRankCover: encoded-key bounds that cover the pattern's matches.
getRankCover(patt, encoded) ==
  CASE patt.m = "key" -> << encoded, encoded \o << "~" >> >>
    [] patt.m = "any" -> << << >>, << "{" >> >>
    [] patt.m = "scalar" -> << << "a" >>, << "z", "~" >> >>
    [] patt.k = "bigint" -> << << "n" >>, << "p", "~" >> >>
    [] OTHER -> << << StyleTag(patt.k) >>, << StyleTag(patt.k), "~" >> >>

(***************************************************************************)
(* Collection engine (summonCollection)                                    *)
(*                                                                         *)
(* The handlers are functions of a world w: the vat store, the reference  *)
(* manager's counts and recognizers, the handles and the abstract         *)
(* contents, with w.err the error the handler threw ("" for none).  What  *)
(* a handler changed before it threw stays changed.                        *)
(***************************************************************************)

NoError == ""

Throw(w, e) == [w EXCEPT !.err = e]

hasWeakKeys(kindName) == kindName \in {"scalarWeakMapStore", "scalarWeakSetStore"}

dbKeyPrefix(hd) == << "v", "c", "." >> \o hd.collectionID \o << "." >>

prefix(hd, dbEntryKey) == dbKeyPrefix(hd) \o dbEntryKey

OrdinalRow(slot) == << "|" >> \o slot
NextOrdinalRow == << "|", "n", "e", "x", "t", "O", "r", "d", "i", "n", "a", "l" >>
KeySchemaRow == << "|", "k", "e", "y", "S", "c", "h", "e", "m", "a" >>
LabelRow == << "|", "l", "a", "b", "e", "l" >>

\* `${x}` of a row read from the store.
RowString(row) ==
  IF row = Undefined
  THEN << "u", "n", "d", "e", "f", "i", "n", "e", "d" >>
  ELSE row.body

getOrdinal(st, hd, remotable) ==
  vatstoreGet(st, prefix(hd, OrdinalRow(getSlotForVal(remotable))))

\* encodeKey without the tag of a string: the string is its own encoding.
encodeKeyUntaggedString(st, hd, key) ==
  LET Encoded(s) == [err |-> NoError, s |-> s]
      Remotable(ordinal) ==
        IF ordinal = Undefined
        THEN [err |-> "OrdinalMissing", s |-> << >>]
        ELSE Encoded(<< "r" >> \o zeroPad(ordinal.body, BIGINT_TAG_LEN)
                       \o << ":" >> \o getSlotForVal(key))
  IN  CASE passStyleOf(key) = "number" -> Encoded(numberToDBEntryKey(key.v))
        [] passStyleOf(key) = "string" -> Encoded(key.v)
        [] passStyleOf(key) = "remotable" -> Remotable(getOrdinal(st, hd, key))
        [] OTHER -> [err |-> "UnsupportedKeyPassStyle", s |-> << >>]

\* encodeKey: [err, s], the encoded key or the error thrown.
encodeKey(st, hd, key) ==
  LET Encoded(s) == [err |-> NoError, s |-> s]
      Remotable(ordinal) ==
        IF ordinal = Undefined
        THEN [err |-> "OrdinalMissing", s |-> << >>]
        ELSE Encoded(<< "r" >> \o zeroPad(ordinal.body, BIGINT_TAG_LEN)
                       \o << ":" >> \o getSlotForVal(key))
  IN  CASE passStyleOf(key) = "null" -> Encoded(<< "z" >>)
        [] passStyleOf(key) = "undefined" -> Encoded(<< "u" >>)
        [] passStyleOf(key) = "number" -> Encoded(numberToDBEntryKey(key.v))
        [] passStyleOf(key) = "string" -> Encoded(<< "s" >> \o key.v)
        [] passStyleOf(key) = "boolean" -> Encoded(<< "b" >> \o key.v)
        [] passStyleOf(key) = "bigint" -> Encoded(bigintToDBEntryKey(BigOf(key)))
        [] passStyleOf(key) = "remotable" -> Remotable(getOrdinal(st, hd, key))
        [] passStyleOf(key) = "symbol" ->
             Encoded(<< "y" >> \o nameForPassableSymbol(key))
        [] OTHER -> [err |-> "UnsupportedKeyPassStyle", s |-> << >>]

keyToDBKey(st, hd, key) ==
  LET Prefixed(e) == [err |-> e.err, s |-> prefix(hd, e.s)]
  IN  Prefixed(encodeKey(st, hd, key))

\* dbKeyToKey: [err, key].
dbKeyToKey(hd, dbKey) ==
  LET Decoded(key) == [err |-> NoError, key |-> key]
      Decode(dbEntryKey, tag) ==
        CASE tag = "z" -> Decoded(KNull)
          [] tag = "u" -> Decoded(KUndefined)
          [] tag = "f" -> Decoded(KNum(dbEntryKeyToNumber(dbEntryKey)))
          [] tag = "s" -> Decoded(KStr(Substring(dbEntryKey, 1)))
          [] tag = "b" ->
               Decoded(KBool(Substring(dbEntryKey, 1) # << "f", "a", "l", "s", "e" >>))
          [] tag \in {"n", "p"} -> Decoded(KBigOf(dbEntryKeyToBigint(dbEntryKey)))
          [] tag = "r" ->
               Decoded(getValForSlot(Substring(dbEntryKey, BIGINT_TAG_LEN + 2)))
          [] tag = "y" -> Decoded(passableSymbolForName(Substring(dbEntryKey, 1)))
          [] OTHER -> [err |-> "DecodeCorruption", key |-> KUndefined]
      Tagged(dbEntryKey) ==
        Decode(dbEntryKey, IF dbEntryKey = << >> THEN "" ELSE dbEntryKey[1])
  IN  Tagged(Substring(dbKey, Len(dbKeyPrefix(hd))))

\* Number.parseInt(row, 10) of a stored row, as the digits of the number;
\* NaN for a missing row.
NaN == << "N", "a", "N" >>
parseInt(row) == IF row = Undefined THEN NaN ELSE StripLeadingZeros(row.body)

\* `${nextOrdinal + 1}`: nextOrdinal is a double, so 2^53 + 1 is 2^53 again.
TwoTo53 == << "9", "0", "0", "7", "1", "9", "9", "2", "5", "4", "7", "4", "0", "9",
              "9", "2" >>
PlusOne(n) == IF n = NaN \/ n = TwoTo53 THEN n ELSE DecInc(n)

\* vrm.addReachableVref / removeReachableVref, over a list of slots.
addReachableVref(rc, slot) == [rc EXCEPT ![slot] = @ + 1]
removeReachableVref(rc, slot) == [rc EXCEPT ![slot] = @ - 1]

RECURSIVE AddAll(_, _)
AddAll(rc, slots) ==
  IF slots = << >> THEN rc ELSE AddAll(addReachableVref(rc, Head(slots)), Tail(slots))

RECURSIVE RemoveAll(_, _)
RemoveAll(rc, slots) ==
  IF slots = << >> THEN rc
  ELSE RemoveAll(removeReachableVref(rc, Head(slots)), Tail(slots))

\* vrm.updateReferenceCounts: add the new references, then drop the old.
updateReferenceCounts(rc, beforeSlots, afterSlots) ==
  RemoveAll(AddAll(rc, afterSlots), beforeSlots)

generateOrdinal(st, hd, remotable) ==
  LET Assign(nextOrdinal) ==
        vatstoreSet(
          vatstoreSet(st, prefix(hd, OrdinalRow(getSlotForVal(remotable))),
                      Raw(nextOrdinal)),
          prefix(hd, NextOrdinalRow), Raw(PlusOne(nextOrdinal)))
  IN  Assign(parseInt(vatstoreGet(st, prefix(hd, NextOrdinalRow))))

deleteOrdinal(st, hd, remotable) ==
  vatstoreDelete(st, prefix(hd, OrdinalRow(getSlotForVal(remotable))))

\* has: [err, value].
has(w, h, key) ==
  LET hd == w.handles[h]
      Found(dbKey) ==
        IF dbKey.err # NoError THEN [err |-> dbKey.err, value |-> FALSE]
        ELSE [err |-> NoError, value |-> vatstoreGet(w.store, dbKey.s) # Undefined]
  IN  IF ~matches(key, hd.keySchema) THEN [err |-> NoError, value |-> FALSE]
      ELSE IF passStyleOf(key) = "remotable"
      THEN [err |-> NoError, value |-> getOrdinal(w.store, hd, key) # Undefined]
      ELSE Found(keyToDBKey(w.store, hd, key))

\* get: [err, value].
get(w, h, key) ==
  LET hd == w.handles[h]
      Result(result) ==
        IF result # Undefined THEN [err |-> NoError, value |-> unserialize(result)]
        ELSE [err |-> "NotFound", value |-> KUndefined]
      Lookup(dbKey) ==
        IF dbKey.err # NoError THEN [err |-> dbKey.err, value |-> KUndefined]
        ELSE Result(vatstoreGet(w.store, dbKey.s))
  IN  IF ~matches(key, hd.keySchema) THEN [err |-> "SchemaViolation", value |-> KUndefined]
      ELSE Lookup(keyToDBKey(w.store, hd, key))

\* The abstract contents of handle h with key bound to value / without key.
AbsPut(abs, h, key, value) ==
  [abs EXCEPT ![h] = [k \in DOMAIN @ \cup {key} |-> IF k = key THEN value ELSE @[k]]]
AbsRemove(abs, h, key) ==
  [abs EXCEPT ![h] = [k \in DOMAIN @ \ {key} |-> @[k]]]

\* entryDeleter deleting the ordinal row only.
entryDeleterKeepsEntry(w, h, vobjID) ==
  [w EXCEPT !.store = vatstoreDelete(w.store, prefix(w.handles[h], OrdinalRow(vobjID))),
            !.abs = AbsRemove(w.abs, h, getValForSlot(vobjID))]

\* The reclamation callback a weak collection registers for its keys.
entryDeleter(w, h, vobjID) ==
  LET hd == w.handles[h]
      ordinalKey == prefix(hd, OrdinalRow(vobjID))
      Delete(ordinalString) ==
        [w EXCEPT
           !.store = vatstoreDelete(
                       vatstoreDelete(w.store, ordinalKey),
                       prefix(hd, << "r" >> \o zeroPad(ordinalString, BIGINT_TAG_LEN)
                                    \o << ":" >> \o vobjID)),
           !.abs = AbsRemove(w.abs, h, getValForSlot(vobjID))]
  IN  Delete(RowString(vatstoreGet(w.store, ordinalKey)))

\* init with the generation bump ahead of its two assertions.
initBumpsGenerationFirst(w, h, key, value) ==
  LET hd == w.handles[h]
      isRem == passStyleOf(key) = "remotable"
      slot == getSlotForVal(key)
      Write(w1, dbKey, serializedValue) ==
        IF dbKey.err # NoError THEN Throw(w1, dbKey.err)
        ELSE [w1 EXCEPT !.store = vatstoreSet(w1.store, dbKey.s, serializedValue),
                        !.refcount = AddAll(w1.refcount, serializedValue.slots),
                        !.handles[h].size = @ + 1,
                        !.abs = AbsPut(w1.abs, h, key, value)]
      Refer(w1) == Write(w1, keyToDBKey(w1.store, hd, key), serialize(value))
      Ordinal(w1) ==
        IF ~isRem THEN Refer(w1)
        ELSE Refer([w1 EXCEPT
                      !.store = generateOrdinal(w1.store, hd, key),
                      !.recognizers = IF hasWeakKeys(hd.kindName)
                                      THEN @ \cup {<< slot, h >>} ELSE @,
                      !.refcount = IF hasWeakKeys(hd.kindName)
                                   THEN @ ELSE addReachableVref(@, slot)])
      Absent(present) ==
        IF present.err # NoError THEN Throw(w, present.err)
        ELSE IF present.value
        THEN Throw([w EXCEPT !.handles[h].currentGenerationNumber = @ + 1],
                   "AlreadyPresent")
        ELSE Ordinal([w EXCEPT !.handles[h].currentGenerationNumber = @ + 1])
  IN  IF ~matches(key, hd.keySchema)
      THEN Throw([w EXCEPT !.handles[h].currentGenerationNumber = @ + 1],
                 "SchemaViolation")
      ELSE Absent(has(w, h, key))

init(w, h, key, value) ==
  LET hd == w.handles[h]
      isRem == passStyleOf(key) = "remotable"
      slot == getSlotForVal(key)
      Write(w1, dbKey, serializedValue) ==
        IF dbKey.err # NoError THEN Throw(w1, dbKey.err)
        ELSE [w1 EXCEPT !.store = vatstoreSet(w1.store, dbKey.s, serializedValue),
                        !.refcount = AddAll(w1.refcount, serializedValue.slots),
                        !.handles[h].size = @ + 1,
                        !.abs = AbsPut(w1.abs, h, key, value)]
      Refer(w1) ==
        IF serializeThrows(value) THEN Throw(w1, "MarshalError")
        ELSE Write(w1, keyToDBKey(w1.store, hd, key), serialize(value))
      Ordinal(w1) ==
        IF ~isRem THEN Refer(w1)
        ELSE Refer([w1 EXCEPT
                      !.store = generateOrdinal(w1.store, hd, key),
                      !.recognizers = IF hasWeakKeys(hd.kindName)
                                      THEN @ \cup {<< slot, h >>} ELSE @,
                      !.refcount = IF hasWeakKeys(hd.kindName)
                                   THEN @ ELSE addReachableVref(@, slot)])
      Absent(present) ==
        IF present.err # NoError THEN Throw(w, present.err)
        ELSE IF present.value THEN Throw(w, "AlreadyPresent")
        ELSE Ordinal([w EXCEPT !.handles[h].currentGenerationNumber = @ + 1])
  IN  IF ~matches(key, hd.keySchema) THEN Throw(w, "SchemaViolation")
      ELSE Absent(has(w, h, key))

\* set without updateReferenceCounts.
setKeepsCounts(w, h, key, value) ==
  LET hd == w.handles[h]
      Write(dbKey, before, after) ==
        IF before = Undefined THEN Throw(w, "NotFound")
        ELSE [w EXCEPT !.store = vatstoreSet(w.store, dbKey.s, after),
                       !.abs = AbsPut(w.abs, h, key, value)]
      Lookup(dbKey) ==
        IF dbKey.err # NoError THEN Throw(w, dbKey.err)
        ELSE Write(dbKey, vatstoreGet(w.store, dbKey.s), serialize(value))
  IN  IF ~matches(key, hd.keySchema) THEN Throw(w, "SchemaViolation")
      ELSE Lookup(keyToDBKey(w.store, hd, key))

\* set taking a further strong reference to a remotable key, as init does.
setCountsKey(w, h, key, value) ==
  LET hd == w.handles[h]
      Write(dbKey, before, after) ==
        IF before = Undefined THEN Throw(w, "NotFound")
        ELSE [w EXCEPT
                !.refcount =
                  updateReferenceCounts(
                    IF passStyleOf(key) = "remotable" /\ ~hasWeakKeys(hd.kindName)
                    THEN addReachableVref(w.refcount, getSlotForVal(key))
                    ELSE w.refcount,
                    before.slots, after.slots),
                !.store = vatstoreSet(w.store, dbKey.s, after),
                !.abs = AbsPut(w.abs, h, key, value)]
      Lookup(dbKey) ==
        IF dbKey.err # NoError THEN Throw(w, dbKey.err)
        ELSE Write(dbKey, vatstoreGet(w.store, dbKey.s), serialize(value))
  IN  IF ~matches(key, hd.keySchema) THEN Throw(w, "SchemaViolation")
      ELSE Lookup(keyToDBKey(w.store, hd, key))

\* set with a generation bump, as init and delete have.
setBumpsGeneration(w, h, key, value) ==
  LET hd == w.handles[h]
      Write(dbKey, before, after) ==
        IF before = Undefined THEN Throw(w, "NotFound")
        ELSE [w EXCEPT
                !.refcount = updateReferenceCounts(w.refcount, before.slots, after.slots),
                !.store = vatstoreSet(w.store, dbKey.s, after),
                !.abs = AbsPut(w.abs, h, key, value),
                !.handles[h].currentGenerationNumber = @ + 1]
      Lookup(dbKey) ==
        IF dbKey.err # NoError THEN Throw(w, dbKey.err)
        ELSE Write(dbKey, vatstoreGet(w.store, dbKey.s), serialize(value))
  IN  IF ~matches(key, hd.keySchema) THEN Throw(w, "SchemaViolation")
      ELSE Lookup(keyToDBKey(w.store, hd, key))

set(w, h, key, value) ==
  LET hd == w.handles[h]
      Write(dbKey, before, after) ==
        IF before = Undefined THEN Throw(w, "NotFound")
        ELSE IF serializeThrows(value) THEN Throw(w, "MarshalError")
        ELSE [w EXCEPT
                !.refcount = updateReferenceCounts(w.refcount, before.slots, after.slots),
                !.store = vatstoreSet(w.store, dbKey.s, after),
                !.abs = AbsPut(w.abs, h, key, value)]
      Lookup(dbKey) ==
        IF dbKey.err # NoError THEN Throw(w, dbKey.err)
        ELSE Write(dbKey, vatstoreGet(w.store, dbKey.s), serialize(value))
  IN  IF ~matches(key, hd.keySchema) THEN Throw(w, "SchemaViolation")
      ELSE Lookup(keyToDBKey(w.store, hd, key))

\* deleteInternal without deleteOrdinal.
deleteInternalKeepsOrdinal(w, h, key) ==
  LET hd == w.handles[h]
      isRem == passStyleOf(key) = "remotable"
      slot == getSlotForVal(key)
      KeyRefs(w1) ==
        IF ~isRem THEN w1
        ELSE [w1 EXCEPT
                !.refcount = IF hasWeakKeys(hd.kindName)
                             THEN @ ELSE removeReachableVref(@, slot),
                !.recognizers = IF hasWeakKeys(hd.kindName)
                                THEN @ \ {<< slot, h >>} ELSE @]
      Delete(dbKey, value) ==
        IF value = Undefined THEN Throw(w, "NotFound")
        ELSE KeyRefs([w EXCEPT !.refcount = RemoveAll(@, value.slots),
                           !.store = vatstoreDelete(@, dbKey.s),
                           !.handles[h].size = @ - 1,
                           !.abs = AbsRemove(@, h, key)])
      Lookup(dbKey) ==
        IF dbKey.err # NoError THEN Throw(w, dbKey.err)
        ELSE Delete(dbKey, vatstoreGet(w.store, dbKey.s))
  IN  IF ~matches(key, hd.keySchema) THEN Throw(w, "SchemaViolation")
      ELSE Lookup(keyToDBKey(w.store, hd, key))

deleteInternal(w, h, key) ==
  LET hd == w.handles[h]
      isRem == passStyleOf(key) = "remotable"
      slot == getSlotForVal(key)
      KeyRefs(w1) ==
        IF ~isRem THEN w1
        ELSE [w1 EXCEPT
                !.refcount = IF hasWeakKeys(hd.kindName)
                             THEN @ ELSE removeReachableVref(@, slot),
                !.recognizers = IF hasWeakKeys(hd.kindName)
                                THEN @ \ {<< slot, h >>} ELSE @,
                !.store = deleteOrdinal(@, hd, key)]
      Delete(dbKey, value) ==
        IF value = Undefined THEN Throw(w, "NotFound")
        ELSE KeyRefs([w EXCEPT !.refcount = RemoveAll(@, value.slots),
                           !.store = vatstoreDelete(@, dbKey.s),
                           !.handles[h].size = @ - 1,
                           !.abs = AbsRemove(@, h, key)])
      Lookup(dbKey) ==
        IF dbKey.err # NoError THEN Throw(w, dbKey.err)
        ELSE Delete(dbKey, vatstoreGet(w.store, dbKey.s))
  IN  IF ~matches(key, hd.keySchema) THEN Throw(w, "SchemaViolation")
      ELSE Lookup(keyToDBKey(w.store, hd, key))

\* add of a set store or weak set store: elem => init(elem, null).
add(w, h, elem) == init(w, h, elem, KNull)

\* delete without the generation bump.
delKeepsGeneration(w, h, key) == deleteInternal(w, h, key)

del(w, h, key) ==
  deleteInternal([w EXCEPT !.handles[h].currentGenerationNumber = @ + 1], h, key)

(***************************************************************************)
(* Range iterator (entriesInternal) and what is built on it                *)
(***************************************************************************)

\* One resumption of entriesInternal's generator for iterator it, from
\* priorDBKey: it probes until it yields, ends or throws.
\* [status, err, prior, key, value, probes, reads], status one of "yield",
\* "done", "error", and "hang" when a probe answers at or beyond the end of
\* the cover, which the loop repeats unchanged; probes and reads count the
\* vatstoreGetAfter calls and the values unserialized on the way.
\* it.boundedStore tells whether the vat store enforces the upper bound of
\* vatstoreGetAfter.
RECURSIVE iterLoopFrom(_, _, _, _, _)
iterLoopFrom(w, it, priorDBKey, probes, reads) ==
  LET hd == w.handles[it.h]
      encoded == IF it.keyPatt.m = "key"
                 THEN encodeKey(w.store, hd, it.keyPatt.key)
                 ELSE [err |-> NoError, s |-> << >>]
      cover == getRankCover(it.keyPatt, encoded.s)
      start == prefix(hd, cover[1])
      end == prefix(hd, cover[2])
      ignoreValues == ~it.needValue /\ pattEq(it.valuePatt, MAny)
      Out(status, err, prior, key, val, p, r) ==
        [status |-> status, err |-> err, prior |-> prior, key |-> key, value |-> val,
         probes |-> p, reads |-> r]
      Value(dbKey, key, value, p, r) ==
        IF ~matches(value, it.valuePatt) THEN iterLoopFrom(w, it, dbKey, p, r)
        ELSE Out("yield", NoError, dbKey, key, value, p, r)
      Decoded(dbKey, dbValue, decoded, p) ==
        IF decoded.err # NoError
        THEN Out("error", decoded.err, dbKey, KUndefined, KUndefined, p, reads)
        ELSE IF ~matches(decoded.key, it.keyPatt) THEN iterLoopFrom(w, it, dbKey, p, reads)
        ELSE IF ignoreValues
        THEN Out("yield", NoError, dbKey, decoded.key, KUndefined, p, reads)
        ELSE Value(dbKey, decoded.key, unserialize(dbValue), p, reads + 1)
      Probed(getAfterResult, p) ==
        IF getAfterResult = << >>
        THEN Out("done", NoError, priorDBKey, KUndefined, KUndefined, p, reads)
        ELSE IF ~StrLt(getAfterResult[1], end)
        THEN Out("hang", NoError, priorDBKey, KUndefined, KUndefined, p, reads)
        ELSE Decoded(getAfterResult[1], getAfterResult[2],
                     dbKeyToKey(hd, getAfterResult[1]), p)
  IN  IF it.generationAtStart # hd.currentGenerationNumber
      THEN Out("error", "ConcurrentModification", priorDBKey, KUndefined, KUndefined,
               probes, reads)
      ELSE IF encoded.err # NoError
      THEN Out("error", encoded.err, priorDBKey, KUndefined, KUndefined, probes, reads)
      ELSE IF it.boundedStore
      THEN Probed(vatstoreGetAfter(w.store, priorDBKey, start, end), probes + 1)
      ELSE Probed(vatstoreGetAfterFrom(w.store, priorDBKey, start), probes + 1)

\* The generator passing over every row it should yield first: it goes on
\* from a yield to the one after it.
iterLoopSkipsYield(w, it, priorDBKey) ==
  LET Again(r) == IF r.status = "yield"
                  THEN iterLoopFrom(w, it, r.prior, r.probes, r.reads)
                  ELSE r
  IN  Again(iterLoopFrom(w, it, priorDBKey, 0, 0))

\* The generator without priorDBKey = dbKey: it reports the row it reached
\* and stays where it was.
iterLoopStaysPut(w, it, priorDBKey) ==
  [iterLoopFrom(w, it, priorDBKey, 0, 0) EXCEPT !.prior = priorDBKey]

iterLoop(w, it, priorDBKey) == iterLoopFrom(w, it, priorDBKey, 0, 0)

\* isValuePattern taking every pattern for a supported one.
isValuePatternAnyPattern(patt) == TRUE

isValuePattern(patt) == pattEq(patt, MAny)

\* The loop of clear: each key that keys() yields goes to deleteInternal.
RECURSIVE clearLoop(_, _, _)
clearLoop(w, it, priorDBKey) ==
  LET Deleted(w1, prior) ==
        IF w1.err # NoError THEN w1 ELSE clearLoop(w1, it, prior)
      Step(r) ==
        IF r.status = "yield" THEN Deleted(deleteInternal(w, it.h, r.key), r.prior)
        ELSE IF r.status = "done" THEN w
        ELSE Throw(w, r.err)
  IN  Step(iterLoop(w, it, priorDBKey))

\* clear without its generation bump.
clearKeepsGeneration(w, h, keyPatt, valuePatt) ==
  LET it == [h |-> h, needValue |-> FALSE, keyPatt |-> keyPatt,
             valuePatt |-> valuePatt, boundedStore |-> TRUE,
             generationAtStart |-> w.handles[h].currentGenerationNumber]
      Cleared(w1) == w1
  IN  IF ~isValuePattern(valuePatt) THEN Throw(w, "UnsupportedValuePattern")
      ELSE Cleared(clearLoop(w, it, << >>))

clear(w, h, keyPatt, valuePatt) ==
  LET it == [h |-> h, needValue |-> FALSE, keyPatt |-> keyPatt,
             valuePatt |-> valuePatt, boundedStore |-> TRUE,
             generationAtStart |-> w.handles[h].currentGenerationNumber]
      Cleared(w1) ==
        IF w1.err # NoError THEN w1
        ELSE [w1 EXCEPT !.handles[h].currentGenerationNumber = @ + 1]
  IN  IF ~isValuePattern(valuePatt) THEN Throw(w, "UnsupportedValuePattern")
      ELSE Cleared(clearLoop(w, it, << >>))

\* The sweep of collectionDeleter: delete every row that starts with
\* keyPrefix.
RECURSIVE sweep(_, _, _)
sweep(st, priorKey, keyPrefix) ==
  LET Swept(getAfterResult) ==
        IF getAfterResult = << >> THEN st
        ELSE sweep(vatstoreDelete(st, getAfterResult[1]), getAfterResult[1], keyPrefix)
  IN  Swept(vatstoreGetAfterPrefix(st, priorKey, keyPrefix))

\* The disposer registered with droppedCollectionRegistry, with the
\* descriptor { keyPrefix: prefix('|') } it was registered under.
collectionDeleter(w, h) ==
  LET Cleared(w1) ==
        IF w1.err # NoError THEN w1
        ELSE [w1 EXCEPT !.store = sweep(@, << >>, prefix(w1.handles[h], << "|" >>))]
  IN  Cleared(clear(w, h, MAny, MAny))

(***************************************************************************)
(* State                                                                   *)
(***************************************************************************)

VARIABLES
  store,        \* the vat store: db key -> row
  refcount,     \* slot -> strong references the collections applied (vrm)
  recognizers,  \* << slot, handle >>: recognizers registered with the vrm
  handles,      \* the handles summonCollection returned, in order
  abs,          \* handle -> key -> value: what init/set/delete were told
  iter,         \* the open iterator
  last,         \* the operation last performed and how it ended
  codec,        \* a key taken through encodeKey and dbKeyToKey
  nextCollectionID,
  storeKindInfoNeedsInitialization,
  storeKindInfo,      \* kind name -> kindID
  storeKindIDToName,  \* kindID -> kind name
  nextExportID,       \* the external export-ID allocator
  reanimators         \* kindIDs with a reanimator registered (vrm)

vars == << store, refcount, recognizers, handles, abs, iter, last, codec,
           nextCollectionID, storeKindInfoNeedsInitialization, storeKindInfo,
           storeKindIDToName, nextExportID, reanimators >>

registryVars == << storeKindInfoNeedsInitialization, storeKindInfo,
                   storeKindIDToName, nextExportID, reanimators >>

(***************************************************************************)
(* Bounds and inputs                                                       *)
(***************************************************************************)

MaxGeneration == 3    \* mutations per handle
MaxHandles == 2       \* handles summoned (made or reanimated)

Slot1 == << "o", "-", "1" >>
Slot2 == << "o", "-", "2" >>
AllSlots == {Slot1, Slot2}

Hex(s4) == s4 \o [i \in 1..12 |-> "0"]
NumMinusOneAndHalf == KNum(Hex(<< "b", "f", "f", "8" >>))
NumTwo == KNum(Hex(<< "4", "0", "0", "0" >>))

EngineKeys ==
  {NumMinusOneAndHalf, NumTwo, KBig(-10), KStr(<< "a" >>), KRem(Slot1), KRem(Slot2)}

Values == {KStr(<< "x" >>), KRem(Slot1)}

IterKeys == {NumMinusOneAndHalf, NumTwo, KBig(-10), KRem(Slot1)}

KeyPatterns == {MAny, MKind("number"), MKind("remotable")}

\* The keys and the key patterns of the pattern queries: a string and a
\* string it starts, two numbers, and patterns for a kind and for one key.
PatternKeys == {KStr(<< "a" >>), KStr(<< "a", "b" >>), NumTwo, NumMinusOneAndHalf}

QueryPatterns ==
  {MAny, MKind("number"), MKind("string"), MKey(KStr(<< "a" >>)), MKey(NumTwo),
   MKey(NumMinusOneAndHalf)}

\* Keys whose text is that of a metadata row, |label and |o-1, beside the
\* remotable of slot o-1 and a number, and the patterns they are queried by.
MetadataKeys ==
  {KStr(<< "|", "l", "a", "b", "e", "l" >>), KStr(<< "|", "o", "-", "1" >>),
   KRem(Slot1), NumTwo}

MetadataPatterns ==
  {MAny, MScalar, MKind("string"), MKind("remotable"),
   MKey(KStr(<< "|", "l", "a", "b", "e", "l" >>))}

\* The value patterns keys, values, entries and clear are called with.
ValuePatterns == {MAny, MScalar, MKind("string")}

KindNames == << "scalarMapStore", "scalarWeakMapStore", "scalarSetStore",
                "scalarWeakSetStore" >>

Labels == {<< "L" >>}

\* Labels of the collections that are reanimated: an ordinary one, and one
\* that reads like a collection ID.
ReanimateLabels == {<< "L" >>, << "1" >>}

ReanimateKeys == {NumTwo, KRem(Slot1)}

\* Keys taken through the codec: every pass style, numbers of both signs,
\* both zeros, the infinities and NaN, bigints of both signs across a change
\* of length.
CodecNumbers ==
  {KNum(Hex(s4)) : s4 \in {<< "f", "f", "f", "0" >>, << "c", "0", "0", "0" >>,
                           << "b", "f", "f", "8" >>, << "8", "0", "0", "0" >>,
                           << "0", "0", "0", "0" >>, << "3", "f", "f", "0" >>,
                           << "4", "0", "0", "0" >>, << "7", "f", "f", "0" >>,
                           << "7", "f", "f", "8" >>}}

ZeroKeys == {KNum(PosZeroBits), KNum(NegZeroBits)}

\* Keys of the collection whose generation counter is followed.
GenerationKeys == {NumTwo, KStr(<< "a" >>)}

\* Elements of the set stores.
SetKeys == {NumTwo, KStr(<< "a" >>), KRem(Slot1), KRem(Slot2)}

\* Keys looked up: a number, a string and a remotable, and an empty
\* copy-array, which M.any() admits and encodeKey rejects.
KCopyArray == Key("copyArray", << >>, 0)
LookupKeys == {NumTwo, KStr(<< "a" >>), KRem(Slot1)}
LookupProbes == LookupKeys \cup {KCopyArray}
LookupSchemas == {MAny, MScalar}

\* The largest ordinal the ten-digit tag can hold, 10^10 - 1, and the values
\* of |nextOrdinal an aged collection is taken to.
MaxOrdinal == [i \in 1..BIGINT_TAG_LEN |-> "9"]
AgedOrdinals == {MaxOrdinal, TwoTo53}

\* -(10^20 - 5) and -(10^20 - 10): twenty digits, beyond the eighteen zeros
\* of zeroPad.
BigMinus20Nines5 ==
  [neg |-> TRUE, digits |-> [i \in 1..20 |-> IF i = 20 THEN "5" ELSE "9"]]
BigMinus20Nines0 ==
  [neg |-> TRUE, digits |-> [i \in 1..20 |-> IF i = 20 THEN "0" ELSE "9"]]

CodecBigints ==
  {KBig(n) : n \in {-100, -99, -10, -9, -1, 0, 1, 9, 10, 99, 100}}
  \cup {KBigOf(BigMinus20Nines5), KBigOf(BigMinus20Nines0)}

CodecKeys ==
  {KNull, KUndefined, KBool(TRUE), KBool(FALSE), KStr(<< >>), KStr(<< "a" >>),
   KStr(<< "a", "|" >>), KSym(<< "f", "o", "o" >>), KRem(Slot1), KRem(Slot2)}
  \cup CodecNumbers \cup CodecBigints

NoIter ==
  [open |-> FALSE, h |-> 0, needValue |-> FALSE, keyPatt |-> MAny,
   valuePatt |-> MAny, started |-> FALSE, priorDBKey |-> << >>,
   generationAtStart |-> 0, status |-> "closed", err |-> NoError,
   yielded |-> << >>, called |-> "none", sawCall |-> "none",
   disturbed |-> FALSE, prevStatus |-> "closed", boundedStore |-> TRUE,
   probes |-> 0, reads |-> 0, setCalled |-> FALSE, sawSet |-> FALSE]

\* The iterator's history fields: called, whether init, delete or clear was
\* called on its handle since its last next(), or since it was obtained when
\* it has had no next() yet, and if so whether one of the
\* calls returned or all threw; sawCall, the same as its last next() found
\* it; disturbed, some call changed the store since its first next();
\* prevStatus, how the next() before the last one ended; setCalled and
\* sawSet, the same as called and sawCall for a set that returned; probes and
\* reads, the vatstoreGetAfter calls and the values unserialized in its last
\* next().

NoCodec == [pc |-> "idle", key |-> KUndefined, enc |-> [err |-> NoError, s |-> << >>],
            dec |-> [err |-> NoError, key |-> KUndefined]]

NoOp == [op |-> "none", h |-> 0, key |-> KUndefined, patt |-> MAny, err |-> NoError]

Did(op, h, key, patt, err) ==
  [op |-> op, h |-> h, key |-> key, patt |-> patt, err |-> err]

World ==
  [store |-> store, refcount |-> refcount, recognizers |-> recognizers,
   handles |-> handles, abs |-> abs, err |-> NoError]

Commit(w) ==
  /\ store' = w.store
  /\ refcount' = w.refcount
  /\ recognizers' = w.recognizers
  /\ handles' = w.handles
  /\ abs' = w.abs

Live(h) == h \in DOMAIN handles /\ ~handles[h].disposed

\* A call of init, delete or clear is noted on the open iterator of the handle.
NoteMutation(h, w) ==
  iter' = IF iter.open /\ iter.h = h
          THEN [iter EXCEPT !.called = IF w.err = NoError \/ @ = "returned"
                                       THEN "returned" ELSE "threw",
                            !.disturbed = @ \/ (iter.started /\ w.store # store)]
          ELSE iter

\* What every operation on a handle ends with: the world it left, and the
\* record of the call.
Finish(op, h, key, patt, w) ==
  /\ Commit(w)
  /\ last' = Did(op, h, key, patt, w.err)
  /\ UNCHANGED << codec, nextCollectionID, registryVars >>

(***************************************************************************)
(* Kind registry and lifecycle                                             *)
(***************************************************************************)

\* The kinds that obtainStoreKindID gives a fresh ID, in table order.
MissingKinds(table) ==
  SelectSeq(KindNames, LAMBDA kind : kind \notin DOMAIN table \/ table[kind] = 0)

IndexOf(seq, x) == CHOOSE i \in 1..Len(seq) : seq[i] = x

\* JSON.parse of the storeKindIDTable row: kind name -> kindID.
ParseKindTable(row) ==
  IF row = Undefined THEN [kind \in {} |-> 0]
  ELSE [kind \in {row.body[2 * i - 1] : i \in 1..(Len(row.body) \div 2)} |->
          StringToNat(row.body[2 * (CHOOSE i \in 1..(Len(row.body) \div 2) :
                                      row.body[2 * i - 1] = kind)])]

\* obtainStoreKindID's loop giving every kind a fresh ID, stored or not.
FilledKindTableAllFresh(table, firstID) ==
  [kind \in {KindNames[i] : i \in 1..Len(KindNames)} |->
     firstID + IndexOf(KindNames, kind) - 1]

\* The table after obtainStoreKindID's loop, allocating from nextExportID.
FilledKindTable(table, firstID) ==
  LET missing == MissingKinds(table)
  IN  [kind \in {KindNames[i] : i \in 1..Len(KindNames)} |->
         IF kind \in DOMAIN table /\ table[kind] # 0 THEN table[kind]
         ELSE firstID + IndexOf(missing, kind) - 1]

\* JSON.stringify of the table.
KindTableRow(table) ==
  [body |-> [i \in 1..(2 * Len(KindNames)) |->
               IF i % 2 = 1 THEN KindNames[(i + 1) \div 2]
               ELSE NatToString(table[KindNames[i \div 2]])],
   slots |-> << >>]

StoreKindIDTable == << "s", "t", "o", "r", "e", "K", "i", "n", "d", "I", "D",
                       "T", "a", "b", "l", "e" >>

prefixc(collectionID, dbEntryKey) ==
  << "v", "c", "." >> \o collectionID \o << "." >> \o dbEntryKey

SerializePattern(patt) ==
  [body |-> << "M", patt.m, patt.k, patt.key >>, slots |-> << >>]
UnserializePattern(row) == [m |-> row.body[2], k |-> row.body[3], key |-> row.body[4]]

summonCollection(label, collectionID, kindName, keySchema, vobjID) ==
  [label |-> label, collectionID |-> collectionID, kindName |-> kindName,
   keySchema |-> keySchema, currentGenerationNumber |-> 0, size |-> 0,
   vobjID |-> vobjID, disposed |-> FALSE, reclaimed |-> FALSE]

\* (vobjID, the external identifier the handle stands for, disposed, the
\* disposer has run, and reclaimed, the reclamation callback has run, are
\* history, not fields of the closure.)

MakeVobjID(kindID, collectionID) ==
  << "o", "+" >> \o NatToString(kindID) \o << "/" >> \o NatToString(collectionID)

\* parseVatSlot of o+<id>/<subid>.
parseVatSlot(vobjID) ==
  LET slash == IndexOf(vobjID, "/")
  IN  [id |-> StringToNat(SubSeq(vobjID, 3, slash - 1)),
       subid |-> StringToNat(SubSeq(vobjID, slash + 1, Len(vobjID)))]

MakeCollection(label, kindName, keySchema) ==
  LET collectionID == nextCollectionID
      cid == NatToString(collectionID)
      \* obtainStoreKindID, with the table it filled and the IDs it allocated
      Registered(table, allocated) ==
        IF storeKindInfoNeedsInitialization
        THEN /\ storeKindInfoNeedsInitialization' = FALSE
             /\ storeKindInfo' = table
             /\ storeKindIDToName' =
                  [id \in {table[KindNames[i]] : i \in 1..Len(KindNames)} |->
                     CHOOSE kind \in DOMAIN table : table[kind] = id]
             /\ nextExportID' = nextExportID + allocated
             /\ reanimators' = {table[KindNames[i]] : i \in 1..Len(KindNames)}
        ELSE UNCHANGED registryVars
      Made(st0, kindID) ==
        /\ store' =
             vatstoreSet(
               vatstoreSet(
                 vatstoreSet(st0, prefixc(cid, NextOrdinalRow), Raw(<< "1" >>)),
                 prefixc(cid, KeySchemaRow), SerializePattern(keySchema)),
               prefixc(cid, LabelRow), Raw(label))
        /\ handles' = Append(handles,
                             summonCollection(label, cid, kindName, keySchema,
                                              MakeVobjID(kindID, collectionID)))
      Obtained(stored, table) ==
        /\ Registered(table, Len(MissingKinds(stored)))
        /\ IF storeKindInfoNeedsInitialization
           THEN Made(vatstoreSet(store, StoreKindIDTable, KindTableRow(table)),
                     table[kindName])
           ELSE Made(store, storeKindInfo[kindName])
      Parsed(stored) == Obtained(stored, FilledKindTable(stored, nextExportID))
  IN  /\ nextCollectionID' = nextCollectionID + 1
      /\ Parsed(ParseKindTable(vatstoreGet(store, StoreKindIDTable)))
      /\ abs' = Append(abs, [k \in {} |-> KUndefined])
      /\ last' = Did("makeCollection", Len(handles) + 1, KUndefined, keySchema, NoError)
      /\ UNCHANGED << refcount, recognizers, iter, codec >>

(***************************************************************************)
(* Operations on a handle                                                  *)
(***************************************************************************)

DoInit(h, key, value) ==
  LET Done(w) == Finish("init", h, key, MAny, w) /\ NoteMutation(h, w)
  IN  /\ Live(h)
      /\ handles[h].currentGenerationNumber < MaxGeneration
      /\ Done(init(World, h, key, value))

DoSet(h, key, value) ==
  LET Done(w) ==
        /\ Finish("set", h, key, MAny, w)
        /\ iter' = IF iter.open /\ iter.h = h /\ iter.started /\ w.err = NoError
                   THEN [iter EXCEPT !.setCalled = TRUE]
                   ELSE iter
  IN  /\ Live(h)
      /\ Done(set(World, h, key, value))

DoDelete(h, key) ==
  LET Done(w) == Finish("delete", h, key, MAny, w) /\ NoteMutation(h, w)
  IN  /\ Live(h)
      /\ handles[h].currentGenerationNumber < MaxGeneration
      /\ Done(del(World, h, key))

DoClear(h, keyPatt) ==
  LET Done(w) == Finish("clear", h, KUndefined, keyPatt, w) /\ NoteMutation(h, w)
  IN  /\ Live(h)
      /\ ~hasWeakKeys(handles[h].kindName)
      /\ handles[h].currentGenerationNumber < MaxGeneration
      /\ Done(clear(World, h, keyPatt, MAny))

\* clear(keyPatt, valuePatt).
DoClearValuePattern(h, keyPatt, valuePatt) ==
  LET Done(w) == Finish("clear", h, KUndefined, keyPatt, w) /\ NoteMutation(h, w)
  IN  /\ Live(h)
      /\ ~hasWeakKeys(handles[h].kindName)
      /\ handles[h].currentGenerationNumber < MaxGeneration
      /\ Done(clear(World, h, keyPatt, valuePatt))

\* keys, values or entries capturing generationAtStart when called, ahead of
\* the first next().
OpenIterCaptures(h, needValue, keyPatt) ==
  /\ Live(h)
  /\ ~hasWeakKeys(handles[h].kindName)
  /\ ~iter.open
  /\ iter' = [NoIter EXCEPT !.open = TRUE, !.h = h, !.needValue = needValue,
                            !.keyPatt = keyPatt, !.status = "fresh",
                            !.started = TRUE,
                            !.generationAtStart = handles[h].currentGenerationNumber]
  /\ last' = Did("iterate", h, KUndefined, keyPatt, NoError)
  /\ UNCHANGED << store, refcount, recognizers, handles, abs, codec, nextCollectionID,
                  registryVars >>

\* keys(keyPatt), values(keyPatt) or entries(keyPatt): nothing runs until the
\* first next().
OpenIter(h, needValue, keyPatt) ==
  /\ Live(h)
  /\ ~hasWeakKeys(handles[h].kindName)
  /\ ~iter.open
  /\ iter' = [NoIter EXCEPT !.open = TRUE, !.h = h, !.needValue = needValue,
                            !.keyPatt = keyPatt, !.status = "fresh"]
  /\ last' = Did("iterate", h, KUndefined, keyPatt, NoError)
  /\ UNCHANGED << store, refcount, recognizers, handles, abs, codec, nextCollectionID,
                  registryVars >>

\* keys(keyPatt, valuePatt), values(keyPatt, valuePatt) or
\* entries(keyPatt, valuePatt).
OpenIterValuePattern(h, needValue, keyPatt, valuePatt) ==
  /\ Live(h)
  /\ ~hasWeakKeys(handles[h].kindName)
  /\ ~iter.open
  /\ iter' = [NoIter EXCEPT !.open = TRUE, !.h = h, !.needValue = needValue,
                            !.keyPatt = keyPatt, !.valuePatt = valuePatt,
                            !.status = "fresh"]
  /\ last' = Did("iterate", h, KUndefined, keyPatt, NoError)
  /\ UNCHANGED << store, refcount, recognizers, handles, abs, codec, nextCollectionID,
                  registryVars >>

\* keys, values or entries when the vat store does not enforce the upper
\* bound of vatstoreGetAfter.
OpenIterLooseStore(h, needValue, keyPatt) ==
  /\ Live(h)
  /\ ~hasWeakKeys(handles[h].kindName)
  /\ ~iter.open
  /\ iter' = [NoIter EXCEPT !.open = TRUE, !.h = h, !.needValue = needValue,
                            !.keyPatt = keyPatt, !.status = "fresh",
                            !.boundedStore = FALSE]
  /\ last' = Did("iterate", h, KUndefined, keyPatt, NoError)
  /\ UNCHANGED << store, refcount, recognizers, handles, abs, codec, nextCollectionID,
                  registryVars >>

\* next() on the open iterator.
IterNext ==
  LET h == iter.h
      fresh == ~iter.started
      it == IF fresh
            THEN [iter EXCEPT !.started = TRUE, !.priorDBKey = << >>,
                    !.generationAtStart = handles[h].currentGenerationNumber]
            ELSE iter
      noted == [it EXCEPT !.sawCall = iter.called, !.called = "none",
                          !.sawSet = iter.setCalled, !.setCalled = FALSE,
                          !.prevStatus = iter.status, !.probes = 0, !.reads = 0]
      Resumed(r) ==
        /\ iter' = [noted EXCEPT
                      !.status = r.status, !.err = r.err,
                      !.priorDBKey = r.prior,
                      !.probes = r.probes, !.reads = r.reads,
                      !.yielded = IF r.status = "yield"
                                  THEN Append(@, [key |-> r.key, value |-> r.value])
                                  ELSE @]
        /\ last' = Did("next", h, r.key, iter.keyPatt, r.err)
  IN  /\ iter.open
      /\ IF iter.status \in {"done", "error"}
         THEN /\ iter' = [noted EXCEPT !.status = "done", !.err = NoError]
              /\ last' = Did("next", h, KUndefined, iter.keyPatt, NoError)
         ELSE IF fresh /\ ~isValuePattern(iter.valuePatt)
         THEN /\ iter' = [noted EXCEPT !.status = "error",
                                       !.err = "UnsupportedValuePattern"]
              /\ last' = Did("next", h, KUndefined, iter.keyPatt,
                             "UnsupportedValuePattern")
         ELSE Resumed(iterLoop(World, it, it.priorDBKey))
      /\ UNCHANGED << store, refcount, recognizers, handles, abs, codec, nextCollectionID,
                      registryVars >>

\* The iterator is dropped.
CloseIter ==
  /\ iter.open
  /\ iter' = NoIter
  /\ last' = Did("close", iter.h, KUndefined, MAny, NoError)
  /\ UNCHANGED << store, refcount, recognizers, handles, abs, codec, nextCollectionID,
                  registryVars >>

\* The reference manager reclaims a recognized key nothing holds: it drops
\* the registrations and calls the recognizer.
Reclaim(slot, h) ==
  LET Done(w) ==
        Finish("reclaim", h, getValForSlot(slot), MAny,
               [w EXCEPT !.recognizers = @ \ {<< slot, h >>},
                         !.handles[h].reclaimed = TRUE])
  IN  /\ << slot, h >> \in recognizers
      /\ refcount[slot] = 0
      /\ Done(entryDeleter(World, h, slot))
      /\ iter' = iter

\* The handle is dropped and the registry runs its disposer.
Dispose(h) ==
  LET Done(w) ==
        Finish("dispose", h, KUndefined, MAny, [w EXCEPT !.handles[h].disposed = TRUE])
  IN  /\ Live(h)
      /\ Done(collectionDeleter(World, h))
      /\ iter' = IF iter.open /\ iter.h = h THEN NoIter ELSE iter

\* reanimateCollection(vobjID, false) for the identifier of handle h0: a
\* further handle on the collection.  JSON.parse of a missing keySchema row
\* throws.
Reanimate(h0) ==
  LET vobjID == handles[h0].vobjID
      Summoned(id, subid, schemaRow, labelRow) ==
        IF schemaRow = Undefined
        THEN /\ last' = Did("reanimate", 0, KUndefined, MAny, "SyntaxError")
             /\ UNCHANGED << handles, abs >>
        ELSE /\ handles' = Append(handles,
                                  summonCollection(subid, RowString(labelRow),
                                                   storeKindIDToName[id],
                                                   UnserializePattern(schemaRow),
                                                   vobjID))
             /\ abs' = Append(abs, abs[h0])
             /\ last' = Did("reanimate", Len(handles) + 1, KUndefined, MAny, NoError)
      Parsed(slot, subid) ==
        Summoned(slot.id, subid,
                 vatstoreGet(store, prefixc(subid, KeySchemaRow)),
                 vatstoreGet(store, prefixc(subid, LabelRow)))
      Slot(slot) == Parsed(slot, NatToString(slot.subid))
  IN  /\ h0 \in DOMAIN handles
      /\ Len(handles) < MaxHandles
      /\ Slot(parseVatSlot(vobjID))
      /\ UNCHANGED << store, refcount, recognizers, iter, codec, nextCollectionID,
                      registryVars >>

\* A key goes through keyToDBKey on handle h, and what came out goes back
\* through dbKeyToKey.
CodecEncode(h, key) ==
  /\ Live(h)
  /\ codec' = [NoCodec EXCEPT !.pc = "encoded", !.key = key,
                              !.enc = keyToDBKey(store, handles[h], key)]
  /\ last' = Did("encode", h, key, MAny, codec'.enc.err)
  /\ UNCHANGED << store, refcount, recognizers, handles, abs, iter,
                  nextCollectionID, registryVars >>

CodecDecode(h) ==
  /\ Live(h)
  /\ codec.pc = "encoded"
  /\ codec.enc.err = NoError
  /\ codec' = [codec EXCEPT !.pc = "decoded",
                            !.dec = dbKeyToKey(handles[h], codec.enc.s)]
  /\ last' = Did("decode", h, codec.key, MAny, codec'.dec.err)
  /\ UNCHANGED << store, refcount, recognizers, handles, abs, iter,
                  nextCollectionID, registryVars >>

\* The process ends and a new one loads the module over the vat store the old
\* one left: nextCollectionID is 1 again, makeCollectionManager builds an
\* uninitialised registry, and the handles and the reference manager's
\* recognizers and reanimators, which lived in memory, are gone.  The vat
\* store, the reference counts and the export-ID allocator persist.
Restart ==
  /\ handles # << >>
  /\ nextCollectionID' = 1
  /\ storeKindInfoNeedsInitialization' = TRUE
  /\ storeKindInfo' = [i \in {KindNames[j] : j \in 1..Len(KindNames)} |-> 0]
  /\ storeKindIDToName' = [i \in {} |-> ""]
  /\ reanimators' = {}
  /\ handles' = << >>
  /\ abs' = << >>
  /\ recognizers' = {}
  /\ iter' = NoIter
  /\ codec' = NoCodec
  /\ last' = Did("restart", 0, KUndefined, MAny, NoError)
  /\ UNCHANGED << store, refcount, nextExportID >>

\* add(elem) on the set store or weak set store made of handle h.
DoAdd(h, elem) ==
  LET Done(w) == Finish("add", h, elem, MAny, w) /\ NoteMutation(h, w)
  IN  /\ Live(h)
      /\ handles[h].kindName \in {"scalarSetStore", "scalarWeakSetStore"}
      /\ handles[h].currentGenerationNumber < MaxGeneration
      /\ Done(add(World, h, elem))

\* has(key) and get(key): they write nothing.
DoHas(h, key) ==
  /\ Live(h)
  /\ last' = Did("has", h, key, MAny, has(World, h, key).err)
  /\ UNCHANGED << store, refcount, recognizers, handles, abs, iter, codec,
                  nextCollectionID, registryVars >>

DoGet(h, key) ==
  /\ Live(h)
  /\ last' = Did("get", h, key, MAny, get(World, h, key).err)
  /\ UNCHANGED << store, refcount, recognizers, handles, abs, iter, codec,
                  nextCollectionID, registryVars >>

\* init and delete of a remotable that is not a key, repeated until
\* |nextOrdinal is aged: each round assigns the next ordinal (generateOrdinal)
\* and removes it again with the entry (deleteInternal), and leaves the
\* reference counts, the recognizers and the size as they were.  (The
\* generation number the rounds advance is read only by iterators, and none
\* is open.)
IsNumeral(s) == s # << >> /\ \A i \in 1..Len(s) : s[i] \in {Digits[j] : j \in 1..10}
NumeralLt(x, y) ==
  /\ IsNumeral(x)
  /\ IsNumeral(y)
  /\ \/ Len(x) < Len(y)
     \/ Len(x) = Len(y) /\ StrLt(x, y)

ChurnOrdinals(h, aged) ==
  /\ Live(h)
  /\ ~iter.open
  /\ NumeralLt(parseInt(vatstoreGet(store, prefix(handles[h], NextOrdinalRow))), aged)
  /\ store' = vatstoreSet(store, prefix(handles[h], NextOrdinalRow), Raw(aged))
  /\ last' = Did("churn", h, KUndefined, MAny, NoError)
  /\ UNCHANGED << refcount, recognizers, handles, abs, iter, codec,
                  nextCollectionID, registryVars >>

(***************************************************************************)
(* Specifications                                                          *)
(***************************************************************************)

Init ==
  /\ store = [k \in {} |-> Undefined]
  /\ refcount = [s \in AllSlots |-> 0]
  /\ recognizers = {}
  /\ handles = << >>
  /\ abs = << >>
  /\ iter = NoIter
  /\ last = NoOp
  /\ codec = NoCodec
  /\ nextCollectionID = 1
  /\ storeKindInfoNeedsInitialization = TRUE
  /\ storeKindInfo = [i \in {KindNames[j] : j \in 1..Len(KindNames)} |-> 0]
  /\ storeKindIDToName = [i \in {} |-> ""]
  /\ nextExportID = 1
  /\ reanimators = {}

\* The engine: one collection and the operations on its handle.
Next ==
  \/ \E label \in Labels, kindName \in {"scalarMapStore", "scalarWeakMapStore"} :
       handles = << >> /\ MakeCollection(label, kindName, MScalar)
  \/ \E h \in DOMAIN handles, key \in EngineKeys, value \in Values : DoInit(h, key, value)
  \/ \E h \in DOMAIN handles, key \in EngineKeys, value \in Values : DoSet(h, key, value)
  \/ \E h \in DOMAIN handles, key \in EngineKeys : DoDelete(h, key)
  \/ \E h \in DOMAIN handles, keyPatt \in KeyPatterns : DoClear(h, keyPatt)
  \/ \E slot \in AllSlots, h \in DOMAIN handles : Reclaim(slot, h)
  \/ \E h \in DOMAIN handles : Dispose(h)

Spec == Init /\ [][Next]_vars

\* The engine with an iterator open on it.
NextIter ==
  \/ \E label \in Labels :
       handles = << >> /\ MakeCollection(label, "scalarMapStore", MScalar)
  \/ \E h \in DOMAIN handles, key \in IterKeys : DoInit(h, key, KStr(<< "x" >>))
  \/ \E h \in DOMAIN handles : DoSet(h, NumTwo, KStr(<< "y" >>))
  \/ \E h \in DOMAIN handles, key \in IterKeys : DoDelete(h, key)
  \/ \E h \in DOMAIN handles : DoClear(h, MAny)
  \/ \E h \in DOMAIN handles, needValue \in BOOLEAN, keyPatt \in {MAny} :
       OpenIter(h, needValue, keyPatt)
  \/ IterNext
  \/ CloseIter

SpecIter == Init /\ [][NextIter]_vars

\* The key codec: keys of every pass style through keyToDBKey and back, on a
\* collection whose remotables may or may not have an ordinal.
NextCodec ==
  \/ \E label \in Labels :
       handles = << >> /\ MakeCollection(label, "scalarMapStore", MScalar)
  \/ \E h \in DOMAIN handles, slot \in AllSlots : DoInit(h, KRem(slot), KStr(<< "x" >>))
  \/ \E h \in DOMAIN handles, key \in ZeroKeys : DoInit(h, key, KStr(<< "x" >>))
  \/ \E h \in DOMAIN handles, key \in CodecKeys : CodecEncode(h, key)
  \/ \E h \in DOMAIN handles : CodecDecode(h)

SpecCodec == Init /\ [][NextCodec]_vars

\* Reanimation: a collection, and the handles summoned for its identifier.
NextReanimate ==
  \/ \E label \in ReanimateLabels :
       handles = << >> /\ MakeCollection(label, "scalarMapStore", MScalar)
  \/ \E h \in DOMAIN handles, key \in ReanimateKeys : DoInit(h, key, KStr(<< "x" >>))
  \/ \E h \in DOMAIN handles : DoSet(h, NumTwo, KStr(<< "y" >>))
  \/ \E h \in DOMAIN handles, key \in ReanimateKeys : DoDelete(h, key)
  \/ \E h \in DOMAIN handles : Reanimate(h)

SpecReanimate == Init /\ [][NextReanimate]_vars

\* Ordinals of an aged collection: remotable keys come and go.
NextOrdinal ==
  \/ \E label \in Labels :
       handles = << >> /\ MakeCollection(label, "scalarMapStore", MScalar)
  \/ \E h \in DOMAIN handles, aged \in AgedOrdinals : ChurnOrdinals(h, aged)
  \/ \E h \in DOMAIN handles, slot \in AllSlots : DoInit(h, KRem(slot), KStr(<< "x" >>))
  \/ \E h \in DOMAIN handles, slot \in AllSlots : DoDelete(h, KRem(slot))

SpecOrdinal == Init /\ [][NextOrdinal]_vars

\* Lookups: a map store whose key schema is M.any() or M.scalar(), probed
\* with keys that are present, absent, or of a pass style the codec rejects.
NextLookup ==
  \/ \E label \in Labels, keySchema \in LookupSchemas :
       handles = << >> /\ MakeCollection(label, "scalarMapStore", keySchema)
  \/ \E h \in DOMAIN handles, key \in LookupProbes : DoInit(h, key, KStr(<< "x" >>))
  \/ \E h \in DOMAIN handles, key \in LookupProbes : DoHas(h, key)
  \/ \E h \in DOMAIN handles, key \in LookupProbes : DoGet(h, key)
  \/ \E h \in DOMAIN handles, key \in LookupProbes : DoSet(h, key, KStr(<< "y" >>))
  \/ \E h \in DOMAIN handles, key \in LookupProbes : DoDelete(h, key)

SpecLookup == Init /\ [][NextLookup]_vars

\* Values the marshal layer rejects: a map store is filled with values that
\* serialize and values that do not, and looked up.
NextMarshal ==
  \/ \E label \in Labels, kindName \in {"scalarMapStore", "scalarWeakMapStore"} :
       handles = << >> /\ MakeCollection(label, kindName, MScalar)
  \/ \E h \in DOMAIN handles, key \in LookupKeys, value \in {KStr(<< "x" >>), KNotPassable} :
       DoInit(h, key, value)
  \/ \E h \in DOMAIN handles, key \in LookupKeys : DoHas(h, key)
  \/ \E h \in DOMAIN handles, key \in LookupKeys : DoGet(h, key)
  \/ \E h \in DOMAIN handles, key \in LookupKeys, value \in {KStr(<< "y" >>), KNotPassable} :
       DoSet(h, key, value)
  \/ \E h \in DOMAIN handles, key \in LookupKeys : DoDelete(h, key)

SpecMarshal == Init /\ [][NextMarshal]_vars

\* The generation counter: every public operation of a map store, with an
\* iterator open on it.
NextGeneration ==
  \/ \E label \in Labels :
       handles = << >> /\ MakeCollection(label, "scalarMapStore", MScalar)
  \/ \E h \in DOMAIN handles, key \in GenerationKeys : DoInit(h, key, KStr(<< "x" >>))
  \/ \E h \in DOMAIN handles, key \in GenerationKeys : DoHas(h, key)
  \/ \E h \in DOMAIN handles, key \in GenerationKeys : DoGet(h, key)
  \/ \E h \in DOMAIN handles, key \in GenerationKeys : DoSet(h, key, KStr(<< "y" >>))
  \/ \E h \in DOMAIN handles, key \in GenerationKeys : DoDelete(h, key)
  \/ \E h \in DOMAIN handles : DoClear(h, MAny)
  \/ \E h \in DOMAIN handles : OpenIter(h, FALSE, MAny)
  \/ IterNext
  \/ CloseIter

SpecGeneration == Init /\ [][NextGeneration]_vars

\* Set stores and weak set stores.
NextSet ==
  \/ \E label \in Labels, kindName \in {"scalarSetStore", "scalarWeakSetStore"} :
       handles = << >> /\ MakeCollection(label, kindName, MScalar)
  \/ \E h \in DOMAIN handles, elem \in SetKeys : DoAdd(h, elem)
  \/ \E h \in DOMAIN handles, elem \in SetKeys : DoHas(h, elem)
  \/ \E h \in DOMAIN handles, elem \in SetKeys : DoDelete(h, elem)

SpecSet == Init /\ [][NextSet]_vars

\* The kind registry and the collection IDs, across collections of every
\* kind and across restarts of the process.
NextRegistry ==
  \/ \E label \in Labels, kindName \in {KindNames[i] : i \in 1..Len(KindNames)} :
       Len(handles) < MaxHandles /\ MakeCollection(label, kindName, MScalar)
  \/ \E h \in DOMAIN handles :
       /\ handles[h].kindName \in {"scalarMapStore", "scalarWeakMapStore"}
       /\ DoInit(h, KRem(Slot1), KStr(<< "x" >>))
  \/ \E h \in DOMAIN handles : DoAdd(h, KRem(Slot1))
  \/ Restart

SpecRegistry == Init /\ [][NextRegistry]_vars

\* Several collections side by side in one vat store, and further handles
\* on them, through every operation that writes or deletes rows.
NextIsolation ==
  \/ \E label \in Labels, kindName \in {"scalarMapStore", "scalarWeakMapStore"} :
       Len(handles) < MaxHandles /\ MakeCollection(label, kindName, MScalar)
  \/ \E h \in DOMAIN handles, key \in ReanimateKeys : DoInit(h, key, KStr(<< "x" >>))
  \/ \E h \in DOMAIN handles : DoSet(h, NumTwo, KStr(<< "y" >>))
  \/ \E h \in DOMAIN handles, key \in ReanimateKeys : DoDelete(h, key)
  \/ \E h \in DOMAIN handles : DoClear(h, MAny)
  \/ \E slot \in AllSlots, h \in DOMAIN handles : Reclaim(slot, h)
  \/ \E h \in DOMAIN handles : Dispose(h)
  \/ \E h \in DOMAIN handles : Reanimate(h)

SpecIsolation == Init /\ [][NextIsolation]_vars

\* A next() that never returns holds the vat: nothing else runs.
Running == iter.status # "hang"

\* Pattern queries: a collection is filled and then queried with keys,
\* values, entries and clear under a key pattern, or disposed of, on a vat
\* store that enforces the upper bound of vatstoreGetAfter and on one that
\* does not.
NextPattern ==
  \/ \E label \in Labels :
       handles = << >> /\ MakeCollection(label, "scalarMapStore", MScalar)
  \/ \E h \in DOMAIN handles, key \in PatternKeys :
       ~iter.open /\ DoInit(h, key, KStr(<< "x" >>))
  \/ \E h \in DOMAIN handles, needValue \in BOOLEAN, keyPatt \in QueryPatterns :
       OpenIter(h, needValue, keyPatt)
  \/ \E h \in DOMAIN handles, keyPatt \in QueryPatterns :
       OpenIterLooseStore(h, FALSE, keyPatt)
  \/ Running /\ IterNext
  \/ Running /\ CloseIter
  \/ \E h \in DOMAIN handles, keyPatt \in QueryPatterns :
       ~iter.open /\ DoClear(h, keyPatt)
  \/ \E h \in DOMAIN handles : ~iter.open /\ Dispose(h)

SpecPattern == Init /\ [][NextPattern]_vars

\* A collection whose keys look like metadata rows, filled, queried with
\* keys, values, entries and clear, and emptied key by key.
NextMetadata ==
  \/ \E label \in Labels :
       handles = << >> /\ MakeCollection(label, "scalarMapStore", MScalar)
  \/ \E h \in DOMAIN handles, key \in MetadataKeys :
       ~iter.open /\ DoInit(h, key, KStr(<< "x" >>))
  \/ \E h \in DOMAIN handles, key \in MetadataKeys :
       ~iter.open /\ DoDelete(h, key)
  \/ \E h \in DOMAIN handles, needValue \in BOOLEAN, keyPatt \in MetadataPatterns :
       OpenIter(h, needValue, keyPatt)
  \/ \E h \in DOMAIN handles, keyPatt \in MetadataPatterns :
       OpenIterLooseStore(h, FALSE, keyPatt)
  \/ Running /\ IterNext
  \/ Running /\ CloseIter
  \/ \E h \in DOMAIN handles, keyPatt \in MetadataPatterns :
       ~iter.open /\ DoClear(h, keyPatt)

SpecMetadata == Init /\ [][NextMetadata]_vars

\* Queries with a value pattern: a collection is filled and then queried
\* with keys, values, entries and clear under a key pattern and a value
\* pattern.
NextValuePattern ==
  \/ \E label \in Labels :
       handles = << >> /\ MakeCollection(label, "scalarMapStore", MScalar)
  \/ \E h \in DOMAIN handles, key \in GenerationKeys, value \in Values :
       ~iter.open /\ DoInit(h, key, value)
  \/ \E h \in DOMAIN handles, needValue \in BOOLEAN, keyPatt \in {MAny, MKind("number")},
        valuePatt \in ValuePatterns :
       OpenIterValuePattern(h, needValue, keyPatt, valuePatt)
  \/ IterNext
  \/ CloseIter
  \/ \E h \in DOMAIN handles, keyPatt \in {MAny, MKind("number")},
        valuePatt \in ValuePatterns :
       DoClearValuePattern(h, keyPatt, valuePatt)

SpecValuePattern == Init /\ [][NextValuePattern]_vars

\* A call of next() on an iterator that has not finished returns: the step
\* of IterNext, told by the record it leaves.
NextReturns ==
  /\ Running
  /\ iter.open
  /\ iter.status \notin {"done", "error"}
  /\ last' \in {Did("next", iter.h, key, iter.keyPatt, err) :
                  key \in {KUndefined} \cup
                          {dbKeyToKey(handles[iter.h], k).key :
                             k \in {r \in DOMAIN store :
                                      /\ StartsWith(r, dbKeyPrefix(handles[iter.h]))
                                      /\ r[Len(dbKeyPrefix(handles[iter.h])) + 1] # "|"}},
                  err \in {NoError, "ConcurrentModification", "OrdinalMissing",
                           "UnsupportedKeyPassStyle"}}

\* The same with the iterator's consumer going on to call next() until the
\* iterator has finished: a drain.
SpecDrain == SpecPattern /\ WF_last(NextReturns)

(***************************************************************************)
(* Properties                                                              *)
(***************************************************************************)

\* What the properties read off a state.
Has(h, key) == has(World, h, key).value
EncodedKey(h, key) == encodeKey(store, handles[h], key).s

\* The rows of handle h's collection, and those of them that are entries.
CollectionRows(h) == {k \in DOMAIN store : StartsWith(k, dbKeyPrefix(handles[h]))}
EntryRows(h) ==
  {k \in CollectionRows(h) : k[Len(dbKeyPrefix(handles[h])) + 1] # "|"}

SlotCount(slots, s) == Cardinality({i \in DOMAIN slots : slots[i] = s})

RECURSIVE ValueRefs(_, _)
ValueRefs(rows, s) ==
  IF rows = {} THEN 0
  ELSE LET k == CHOOSE r \in rows : TRUE
       IN  SlotCount(store[k].slots, s) + ValueRefs(rows \ {k}, s)

\* Two keys that compare equal: the same key, or the two zeros.
SameKey(a, b) ==
  \/ a = b
  \/ /\ passStyleOf(a) = "number" /\ passStyleOf(b) = "number"
     /\ {a.v, b.v} \subseteq {NegZeroBits, PosZeroBits}

\* The open iterator has just reported done for the first time, having
\* yielded at every next() before, with the store as it was at its first
\* next().
Drained ==
  /\ iter.open /\ iter.status = "done" /\ iter.prevStatus \in {"fresh", "yield"}
  /\ ~iter.disturbed

YieldedKeys == {iter.yielded[i].key : i \in DOMAIN iter.yielded}

\* C1: draining keys() with no pattern and no intervening mutation yields
\* exactly the keys of the collection, each once, in ascending order of their
\* encoded keys.
C1_KeysDrainInOrder ==
  (Drained /\ iter.keyPatt = MAny) =>
    /\ YieldedKeys = DOMAIN abs[iter.h]
    /\ Len(iter.yielded) = Cardinality(DOMAIN abs[iter.h])
    /\ \A i, j \in DOMAIN iter.yielded :
         i < j => StrLt(EncodedKey(iter.h, iter.yielded[i].key),
                        EncodedKey(iter.h, iter.yielded[j].key))

C1_Witness ==
  /\ Drained /\ iter.keyPatt = MAny
  /\ NumMinusOneAndHalf \in DOMAIN abs[iter.h]
  /\ NumMinusOneAndHalf \notin YieldedKeys
  /\ Len(iter.yielded) = Cardinality(DOMAIN abs[iter.h])

\* C2: a key that encodes decodes to a key equal to it (the two zeros count
\* as equal).
C2_CodecRoundTrip ==
  codec.pc = "decoded" =>
    codec.dec.err = NoError /\ SameKey(codec.dec.key, codec.key)

C2_Witness ==
  /\ codec.pc = "decoded" /\ codec.key = NumMinusOneAndHalf
  /\ codec.dec.err = NoError /\ codec.dec.key # codec.key

\* C3, as stated: when init, delete or clear was called on the handle
\* between two next() calls of an iterator, the later next() fails with
\* ConcurrentModification.
C3_MutationFailsNext ==
  (iter.open /\ iter.sawCall # "none") =>
    iter.status = "error" /\ iter.err = "ConcurrentModification"

\* C3, amended: when init, delete or clear returned on the handle between
\* two next() calls of an iterator and the earlier next() yielded an
\* element, the later next() fails with ConcurrentModification.
C3_MutationFailsLiveNext ==
  (iter.open /\ iter.sawCall = "returned" /\ iter.prevStatus = "yield") =>
    iter.status = "error" /\ iter.err = "ConcurrentModification"

C3_Witness ==
  /\ iter.open /\ iter.sawCall = "returned" /\ iter.prevStatus = "yield"
  /\ iter.status = "error" /\ last.op = "next"

\* C4: on a live handle has(k) is true exactly for the keys bound by init and
\* not deleted since, and get(k) returns the value of the last init or set
\* of k.
C4_HasGetFollowInitSetDelete ==
  \A h \in DOMAIN handles : Live(h) =>
    \A k \in EngineKeys :
      /\ Has(h, k) = (k \in DOMAIN abs[h])
      /\ k \in DOMAIN abs[h] =>
           get(World, h, k) = [err |-> NoError, value |-> abs[h][k]]
      /\ (last.op \in {"init", "set"} /\ last.err = NoError /\ last.h = h) =>
           Has(h, last.key)
      /\ (last.op = "delete" /\ last.err = NoError /\ last.h = h) =>
           ~Has(h, last.key)

C4_Witness ==
  /\ last.op = "set" /\ last.err = NoError
  /\ passStyleOf(last.key) = "remotable"
  /\ get(World, last.h, last.key).value = KRem(Slot1)
  /\ \E k \in EngineKeys : ~Has(last.h, k)

\* C5: when init, set, delete and clear have left a collection empty, and no
\* key of it was reclaimed, no reference count is held for it and no
\* recognizer is registered.
C5_EmptyCollectionHoldsNothing ==
  \A h \in DOMAIN handles :
    (Live(h) /\ ~handles[h].reclaimed /\ DOMAIN abs[h] = {}) =>
      /\ \A s \in AllSlots : refcount[s] = 0
      /\ recognizers = {}

C5_Witness ==
  /\ last.op = "delete" /\ last.err = NoError /\ last.key = KRem(Slot1)
  /\ DOMAIN abs[last.h] = {}

\* C6: every slot's reference count is its occurrences in the stored values
\* plus one if it is a key of a strong collection, and the recognizers of a
\* weak collection are its remotable keys; reclamation included.
C6_CountsMatchContents ==
  \A h \in DOMAIN handles : Live(h) =>
    \A s \in AllSlots :
      /\ refcount[s] = ValueRefs(EntryRows(h), s)
                         + (IF ~hasWeakKeys(handles[h].kindName) /\ Has(h, KRem(s))
                            THEN 1 ELSE 0)
      /\ (<< s, h >> \in recognizers) =
           (hasWeakKeys(handles[h].kindName) /\ Has(h, KRem(s)))

C6_Witness ==
  /\ last.op = "reclaim" /\ EntryRows(last.h) = {}
  /\ refcount[Slot1] = 1

\* C7: when a weak collection's key is reclaimed its ordinal row and its
\* entry row are gone and has() answers false; the callback changes nothing
\* for a remotable that is not a key.
C7_ReclaimRemovesBothRows ==
  \A h \in DOMAIN handles : (Live(h) /\ hasWeakKeys(handles[h].kindName)) =>
    /\ (last.op = "reclaim" /\ last.h = h) =>
         /\ ~Has(h, last.key)
         /\ getOrdinal(store, handles[h], last.key) = Undefined
         /\ \A k \in EntryRows(h) :
              Substring(k, Len(k) - Len(getSlotForVal(last.key)))
                # getSlotForVal(last.key)
    /\ \A s \in AllSlots : ~Has(h, KRem(s)) => entryDeleter(World, h, s) = World

C7_Witness ==
  /\ last.op = "reclaim" /\ ~Has(last.h, last.key)
  /\ EntryRows(last.h) # {}

\* C8: the handles summoned for one external identifier agree on has and get
\* of every key.
C8_ReanimatedHandlesAgree ==
  \A h1, h2 \in DOMAIN handles :
    (Live(h1) /\ Live(h2) /\ handles[h1].vobjID = handles[h2].vobjID) =>
      \A k \in ReanimateKeys :
        /\ has(World, h1, k) = has(World, h2, k)
        /\ get(World, h1, k) = get(World, h2, k)

C8_Witness ==
  \E h1, h2 \in DOMAIN handles :
    /\ handles[h1].vobjID = handles[h2].vobjID
    /\ last.op = "init" /\ last.err = NoError /\ last.h = h1
    /\ Has(h1, last.key) /\ ~Has(h2, last.key)

\* C9: disposal ends normally, having deleted every row of the collection
\* and released every reference and recognizer it held.
C9_DisposeLeavesNothing ==
  last.op = "dispose" =>
    /\ last.err = NoError
    /\ CollectionRows(last.h) = {}
    /\ \A s \in AllSlots : refcount[s] = 0
    /\ recognizers = {}

C9_Witness ==
  /\ last.op = "dispose" /\ last.err = "NotFound"
  /\ CollectionRows(last.h) # {}

\* C10: clear(keyPatt) ends normally, having removed the entries whose key
\* matches keyPatt and no others; with no pattern it leaves the size 0.
C10_ClearRemovesMatching ==
  [][last'.op = "clear" =>
       /\ last'.err = NoError
       /\ \A k \in EngineKeys :
            IF matches(k, last'.patt)
            THEN ~has(World', last'.h, k).value
            ELSE /\ has(World', last'.h, k) = has(World, last'.h, k)
                 /\ get(World', last'.h, k) = get(World, last'.h, k)
       /\ last'.patt = MAny => handles'[last'.h].size = 0]_vars

C10_Witness ==
  /\ last.op = "clear" /\ last.err = "NotFound" /\ last.patt = MAny
  /\ Has(last.h, NumMinusOneAndHalf)

\* The numeric order of two numbers given by their bits: neither is NaN, and
\* the two zeros are equal.
SignBit(bits) == DigitVal(bits[1]) >= 8
IsZeroBits(bits) == bits \in {NegZeroBits, PosZeroBits}
NumLt(a, b) ==
  /\ ~IsNaNBits(a) /\ ~IsNaNBits(b)
  /\ ~(IsZeroBits(a) /\ IsZeroBits(b))
  /\ CASE SignBit(a) /\ SignBit(b) -> StrLt(b, a)
       [] SignBit(a) /\ ~SignBit(b) -> TRUE
       [] ~SignBit(a) /\ SignBit(b) -> FALSE
       [] OTHER -> StrLt(a, b)

\* C11: the encoding of a number is below the encoding of every numerically
\* greater number, and the encoding of NaN is above the encoding of every
\* other number.
C11_NumberOrderPreserved ==
  (codec.pc = "encoded" /\ passStyleOf(codec.key) = "number") =>
    \A b \in CodecNumbers :
      (NumLt(codec.key.v, b.v) \/ (IsNaNBits(b.v) /\ ~IsNaNBits(codec.key.v))) =>
        StrLt(codec.enc.s, keyToDBKey(store, handles[last.h], b).s)

C11_Witness ==
  /\ codec.pc = "encoded" /\ codec.key = KNum(NegZeroBits)
  /\ \E a \in CodecNumbers :
       /\ NumLt(a.v, codec.key.v)
       /\ StrLt(codec.enc.s, keyToDBKey(store, handles[last.h], a).s)

\* C12: -0 and +0 encode alike and are one key: after init(+0, v), has(-0) is
\* true, get(-0) returns v and init(-0, w) fails with AlreadyPresent.
C12_SignedZerosCollide ==
  (last.op = "init" /\ last.err = NoError /\ last.key = KNum(PosZeroBits)) =>
    /\ EncodedKey(last.h, KNum(NegZeroBits)) = EncodedKey(last.h, KNum(PosZeroBits))
    /\ Has(last.h, KNum(NegZeroBits))
    /\ get(World, last.h, KNum(NegZeroBits)) = get(World, last.h, KNum(PosZeroBits))
    /\ init(World, last.h, KNum(NegZeroBits), KStr(<< "w" >>)).err = "AlreadyPresent"

C12_Witness ==
  /\ last.op = "init" /\ last.err = NoError /\ last.key = KNum(NegZeroBits)
  /\ Has(last.h, KNum(PosZeroBits)) /\ Has(last.h, KNum(NegZeroBits))
  /\ handles[last.h].size = 2

\* Numeric order of decimal digit strings without leading zeros, and of
\* bigints.
DecLt(x, y) == Len(x) < Len(y) \/ (Len(x) = Len(y) /\ StrLt(x, y))

BigLt(a, b) ==
  CASE a.neg /\ b.neg -> DecLt(b.digits, a.digits)
    [] a.neg /\ ~b.neg -> TRUE
    [] ~a.neg /\ b.neg -> FALSE
    [] OTHER -> DecLt(a.digits, b.digits)

\* C13: bigint order preservation: whenever a bigint key a has been encoded,
\* every bigint key b with a < b (negative, zero or positive, of any digit
\* length) has an encoding that is lexicographically greater than a's.
C13_BigintOrderPreserved ==
  (codec.pc = "encoded" /\ passStyleOf(codec.key) = "bigint") =>
    \A b \in CodecBigints :
      BigLt(BigOf(codec.key), BigOf(b)) =>
        StrLt(codec.enc.s, keyToDBKey(store, handles[last.h], b).s)

\* The twenty-digit negative -(10^20 - 5) has been encoded, and its encoding
\* is greater than that of the larger -(10^20 - 10).
C13_Witness ==
  /\ codec.pc = "encoded"
  /\ codec.key = KBigOf(BigMinus20Nines5)
  /\ BigLt(BigMinus20Nines5, BigMinus20Nines0)
  /\ StrLt(keyToDBKey(store, handles[last.h], KBigOf(BigMinus20Nines0)).s, codec.enc.s)

\* The entry rows of handle h's collection whose key is a remotable.
RemotableRows(h) ==
  {k \in EntryRows(h) : k[Len(dbKeyPrefix(handles[h])) + 1] = "r"}

\* The ordinal tag of the encoded key of a remotable.
OrdinalTag(dbEntryKey) == SubSeq(dbEntryKey, 2, BIGINT_TAG_LEN + 1)

\* C14: remotable keys are ordered by insertion: when init has stored a
\* remotable key, its encoded key is r, the ordinal it was assigned padded
\* with zeros to ten digits, ':' and the slot, and it sorts after the encoded
\* key of every remotable that was present before, however many insertions
\* the collection has seen.
C14_RemotablesInInsertionOrder ==
  [][\A h \in DOMAIN handles :
       LET dbEntryKey == encodeKey(store', handles'[h], last'.key).s
       IN  (/\ last'.op = "init"
            /\ last'.h = h
            /\ last'.err = NoError
            /\ passStyleOf(last'.key) = "remotable") =>
             /\ dbEntryKey = << "r" >> \o OrdinalTag(dbEntryKey) \o << ":" >>
                               \o getSlotForVal(last'.key)
             /\ StripLeadingZeros(OrdinalTag(dbEntryKey)) =
                  getOrdinal(store', handles'[h], last'.key).body
             /\ \A k \in RemotableRows(h) :
                  StrLt(k, prefix(handles[h], dbEntryKey))]_vars

\* A remotable was inserted after another that is still present, and its
\* encoded key sorts before the other's.
C14_Witness ==
  /\ last.op = "init"
  /\ last.err = NoError
  /\ last.key = KRem(Slot2)
  /\ Has(last.h, KRem(Slot1))
  /\ getOrdinal(store, handles[last.h], KRem(Slot1)).body = MaxOrdinal
  /\ StrLt(EncodedKey(last.h, KRem(Slot2)), EncodedKey(last.h, KRem(Slot1)))

\* C15: ordinal overflow: an init of a remotable key that would take
\* |nextOrdinal past 10^10 - 1 fails with OrdinalOverflow, and after every
\* step the ordinal tag of each remotable entry row is the ten-digit form of
\* a number, distinct from the tag of every other remotable entry row.
C15_OrdinalOverflowFails ==
  [][\A h \in DOMAIN handles :
       /\ (/\ last'.op = "init"
           /\ last'.h = h
           /\ passStyleOf(last'.key) = "remotable"
           /\ matches(last'.key, handles[h].keySchema)
           /\ ~Has(h, last'.key)
           /\ ~NumeralLt(parseInt(vatstoreGet(store, prefix(handles[h], NextOrdinalRow))),
                         MaxOrdinal)) =>
            last'.err = "OrdinalOverflow"
       /\ h \in DOMAIN handles' =>
            \A slot \in AllSlots :
              LET ordinal == getOrdinal(store', handles'[h], KRem(slot))
                  dbEntryKey == encodeKey(store', handles'[h], KRem(slot)).s
              IN  ordinal # Undefined =>
                    /\ StripLeadingZeros(OrdinalTag(dbEntryKey)) = ordinal.body
                    /\ \A other \in AllSlots \ {slot} :
                         getOrdinal(store', handles'[h], KRem(other)) # Undefined =>
                           OrdinalTag(dbEntryKey) #
                             OrdinalTag(encodeKey(store', handles'[h], KRem(other)).s)]_vars

\* init stored a remotable key under the ordinal 10^10 - 1 and took
\* |nextOrdinal to 10^10 without failing.
C15_Witness ==
  /\ last.op = "init"
  /\ last.err = NoError
  /\ passStyleOf(last.key) = "remotable"
  /\ getOrdinal(store, handles[last.h], last.key).body = MaxOrdinal
  /\ vatstoreGet(store, prefix(handles[last.h], NextOrdinalRow)).body = DecInc(MaxOrdinal)

\* C16: |nextOrdinal exceeds every ordinal assigned and no ordinal is
\* assigned twice: when init assigns an ordinal to a remotable, the ordinal
\* is a number not below the |nextOrdinal of before (which exceeded every
\* ordinal assigned earlier), and after every step |nextOrdinal is strictly
\* greater than the ordinal of every remotable of the collection.
C16_OrdinalsNeverReused ==
  [][\A h \in DOMAIN handles :
       LET nextBefore == RowString(vatstoreGet(store, prefix(handles[h], NextOrdinalRow)))
           nextAfter == RowString(vatstoreGet(store', prefix(handles'[h], NextOrdinalRow)))
       IN  /\ (/\ last'.op = "init"
               /\ last'.h = h
               /\ passStyleOf(last'.key) = "remotable"
               /\ getOrdinal(store, handles[h], last'.key) = Undefined
               /\ getOrdinal(store', handles'[h], last'.key) # Undefined) =>
                /\ IsNumeral(getOrdinal(store', handles'[h], last'.key).body)
                /\ ~NumeralLt(getOrdinal(store', handles'[h], last'.key).body, nextBefore)
           /\ h \in DOMAIN handles' =>
                \A slot \in AllSlots :
                  getOrdinal(store', handles'[h], KRem(slot)) # Undefined =>
                    NumeralLt(getOrdinal(store', handles'[h], KRem(slot)).body, nextAfter)]_vars

\* init through a reanimated handle assigned a remotable the ordinal NaN and
\* left |nextOrdinal at NaN.
C16_Witness ==
  /\ last.op = "init"
  /\ last.err = NoError
  /\ passStyleOf(last.key) = "remotable"
  /\ getOrdinal(store, handles[last.h], last.key) = Raw(NaN)
  /\ vatstoreGet(store, prefix(handles[last.h], NextOrdinalRow)) = Raw(NaN)

\* A numeral padded with zeros on the left to at least size characters.
ZeroPadded(o, size) ==
  IF Len(o) >= size THEN o ELSE [i \in 1..(size - Len(o)) |-> "0"] \o o

\* The entry row that pairs with the ordinal o of a slot.
PairedRow(h, o, slot) ==
  prefix(handles[h], << "r" >> \o ZeroPadded(o, BIGINT_TAG_LEN) \o << ":" >> \o slot)

\* The slot named by a remotable entry row of handle h.
RowSlot(h, k) == Substring(k, Len(dbKeyPrefix(handles[h])) + BIGINT_TAG_LEN + 2)

\* C17: ordinal/entry pairing: under the prefix of every handle, the ordinal
\* row of a slot exists with value o if and only if the entry row
\* r<o padded to ten digits>:<slot> exists, and that is the only remotable
\* entry row of the slot.
C17_OrdinalEntryPaired ==
  \A h \in DOMAIN handles :
    /\ \A slot \in AllSlots :
         getOrdinal(store, handles[h], KRem(slot)) # Undefined =>
           PairedRow(h, getOrdinal(store, handles[h], KRem(slot)).body, slot)
             \in RemotableRows(h)
    /\ \A k \in RemotableRows(h) :
         /\ vatstoreGet(store, prefix(handles[h], OrdinalRow(RowSlot(h, k)))) # Undefined
         /\ k = PairedRow(h, vatstoreGet(store, prefix(handles[h],
                                                       OrdinalRow(RowSlot(h, k)))).body,
                          RowSlot(h, k))

\* A remotable holds the ordinal 10^10 and its entry row carries the tag
\* 0000000000.
C17_Witness ==
  \E h \in DOMAIN handles, slot \in AllSlots :
    /\ getOrdinal(store, handles[h], KRem(slot)) = Raw(DecInc(MaxOrdinal))
    /\ prefix(handles[h], << "r" >> \o [i \in 1..BIGINT_TAG_LEN |-> "0"] \o << ":" >> \o slot)
         \in RemotableRows(h)
    /\ PairedRow(h, DecInc(MaxOrdinal), slot) \notin RemotableRows(h)

\* C18: the size of every live handle of a non-weak collection, reanimated
\* handles included, is the number of entry rows (rows whose key does not
\* begin with '|') under the collection's prefix.
C18_SizeIsEntryCount ==
  \A h \in DOMAIN handles :
    (Live(h) /\ ~hasWeakKeys(handles[h].kindName)) =>
      handles[h].size = Cardinality(EntryRows(h))

\* A handle has just been reanimated for a collection that holds entries, and
\* its size is 0.
C18_Witness ==
  /\ last.op = "reanimate"
  /\ last.err = NoError
  /\ Live(last.h)
  /\ handles[last.h].size = 0
  /\ EntryRows(last.h) # {}

\* C19: has never fails: a call of has ends without an error; for a key that
\* does not satisfy the key schema or is not in the collection (a key of a
\* pass style the codec cannot encode included) it returns false; and it
\* leaves the store, the reference counts, the size and the generation as
\* they were.
C19_HasNeverFails ==
  [][\A h \in DOMAIN handles :
       (last'.op = "has" /\ last'.h = h) =>
         /\ last'.err = NoError
         /\ (~matches(last'.key, handles[h].keySchema) \/ last'.key \notin DOMAIN abs[h]) =>
              ~has(World, h, last'.key).value
         /\ UNCHANGED << store, refcount, recognizers, handles >>]_vars

\* has was called with a copy-array on a collection whose key schema is
\* M.any(), and it threw.
C19_Witness ==
  /\ last.op = "has"
  /\ last.key = KCopyArray
  /\ handles[last.h].keySchema = MAny
  /\ last.err = "UnsupportedKeyPassStyle"

\* C20: get, set and delete called with a key that matches the key schema,
\* is of a pass style the codec encodes and is not in the collection fail
\* with NotFound, remotables that were never inserted or were deleted
\* included.
C20_AbsentKeyNotFound ==
  [][\A h \in DOMAIN handles :
       (/\ last'.op \in {"get", "set", "delete"}
        /\ last'.h = h
        /\ matches(last'.key, handles[h].keySchema)
        /\ passStyleOf(last'.key) \in ScalarStyles
        /\ last'.key \notin DOMAIN abs[h]) =>
         last'.err = "NotFound"]_vars

\* get was called with a remotable that is not in the collection, and it
\* failed for want of an ordinal.
C20_Witness ==
  /\ last.op = "get"
  /\ last.key = KRem(Slot1)
  /\ last.key \notin DOMAIN abs[last.h]
  /\ last.err = "OrdinalMissing"

\* C21: init fails with SchemaViolation when the key does not match the key
\* schema and with AlreadyPresent when the key is present, and a call that
\* fails in either way leaves every row of the vat store (|nextOrdinal
\* included), every reference count and recognizer, the size and the
\* generation counter as they were.
C21_FailedInitChangesNothing ==
  [][\A h \in DOMAIN handles :
       (last'.op = "init" /\ last'.h = h) =>
         /\ ~matches(last'.key, handles[h].keySchema) => last'.err = "SchemaViolation"
         /\ (matches(last'.key, handles[h].keySchema) /\ last'.key \in DOMAIN abs[h]) =>
              last'.err = "AlreadyPresent"
         /\ last'.err \in {"SchemaViolation", "AlreadyPresent"} =>
              UNCHANGED << store, refcount, recognizers, handles, abs >>]_vars

\* init has failed with AlreadyPresent on a remotable key that holds an
\* ordinal.
C21_Witness ==
  /\ last.op = "init"
  /\ last.err = "AlreadyPresent"
  /\ last.key = KRem(Slot1)
  /\ getOrdinal(store, handles[last.h], last.key) # Undefined

\* C22: on a set store or weak set store, add of an element that is already
\* present ends without an error and leaves the store, the reference counts,
\* the recognizers and the size as they were.
C22_AddOfPresentIsSilent ==
  [][\A h \in DOMAIN handles :
       (last'.op = "add" /\ last'.h = h /\ last'.key \in DOMAIN abs[h]) =>
         /\ last'.err = NoError
         /\ store' = store
         /\ refcount' = refcount
         /\ recognizers' = recognizers
         /\ handles'[h].size = handles[h].size]_vars

\* add was called with a remotable that is in the set, and it threw.
C22_Witness ==
  /\ last.op = "add"
  /\ last.err = "AlreadyPresent"
  /\ last.key = KRem(Slot1)
  /\ Has(last.h, last.key)
  /\ handles[last.h].kindName \in {"scalarSetStore", "scalarWeakSetStore"}

\* The four kind names, and the rows of the vat store under a prefix.
KindNameSet == {KindNames[i] : i \in 1..Len(KindNames)}
StoredKindTable(st) == ParseKindTable(vatstoreGet(st, StoreKindIDTable))

\* C23: kind registry: once initialised in a process, the registry and the
\* persisted storeKindIDTable stay as they are however many collections are
\* made; the step that initialises it keeps the stored ID of every kind name
\* the persisted table holds and allocates no export ID for it, gives each
\* absent name one export ID of its own, persists a table that maps all four
\* kind names to the IDs in use, and registers a reanimator for each ID.
C23_KindRegistryInitialisedOnce ==
  [][/\ (~storeKindInfoNeedsInitialization /\ ~storeKindInfoNeedsInitialization') =>
          /\ UNCHANGED registryVars
          /\ vatstoreGet(store', StoreKindIDTable) = vatstoreGet(store, StoreKindIDTable)
     /\ (storeKindInfoNeedsInitialization /\ ~storeKindInfoNeedsInitialization') =>
          LET stored == StoredKindTable(store)
              present == {kind \in KindNameSet : kind \in DOMAIN stored /\ stored[kind] # 0}
              absent == KindNameSet \ present
          IN  /\ \A kind \in present : storeKindInfo'[kind] = stored[kind]
              /\ nextExportID' = nextExportID + Cardinality(absent)
              /\ \A kind \in absent :
                   storeKindInfo'[kind] \in nextExportID..(nextExportID' - 1)
              /\ \A k1, k2 \in absent :
                   k1 # k2 => storeKindInfo'[k1] # storeKindInfo'[k2]
              /\ StoredKindTable(store') = storeKindInfo'
              /\ reanimators' = {storeKindInfo'[kind] : kind \in KindNameSet}
              /\ \A kind \in KindNameSet :
                   storeKindIDToName'[storeKindInfo'[kind]] = kind]_vars

\* In a process started over the store of an earlier one, which had stored a
\* remotable key, the registry has been initialised from the persisted table
\* without allocating an export ID.
C23_Witness ==
  /\ last.op = "makeCollection"
  /\ Len(handles) = 1
  /\ ~storeKindInfoNeedsInitialization
  /\ \E k \in DOMAIN store : StartsWith(k, << "v", "c", ".", "1", ".", "r" >>)
  /\ storeKindInfo = StoredKindTable(store)
  /\ nextExportID = Len(KindNames) + 1

\* C25: makeCollection never allocates a collection ID under whose prefix
\* vc.<collectionID>. the vat store already holds rows: on every step that
\* makes a collection, no row of the store before the step lies under the
\* new collection's prefix, within a process and after a restart over the
\* persisted store alike.
C25_FreshCollectionPrefix ==
  [][last'.op = "makeCollection" =>
       \A k \in DOMAIN store :
         ~StartsWith(k, dbKeyPrefix(handles'[Len(handles')]))]_vars

\* A collection made after a restart has taken the ID 1 again: the entry row
\* stored by the earlier process lies under its prefix, and its |nextOrdinal
\* is back at 1 below the ordinal that entry holds.
C25_Witness ==
  /\ last.op = "makeCollection"
  /\ Len(handles) = 1
  /\ handles[1].collectionID = << "1" >>
  /\ getOrdinal(store, handles[1], KRem(Slot1)) = Raw(<< "1" >>)
  /\ vatstoreGet(store, prefix(handles[1], NextOrdinalRow)) = Raw(<< "1" >>)

\* The entry rows an iterator has still to yield: the rows of its handle
\* after its priorDBKey whose decoded key matches its key pattern.
RowsAhead(it) ==
  {k \in EntryRows(it.h) :
     /\ StrLt(it.priorDBKey, k)
     /\ dbKeyToKey(handles[it.h], k).err = NoError
     /\ matches(dbKeyToKey(handles[it.h], k).key, it.keyPatt)}

\* C24: a set between two next() calls does not invalidate the iterator: a
\* next() that follows a set on the handle, with no init, delete or clear
\* called since the next() before, does not fail; it yields the entry of the
\* first row ahead, as it would have without the set, with the value that
\* row holds now when values are asked for, or reports done when no row is
\* ahead.
C24_SetKeepsIteratorValid ==
  [][(/\ last'.op = "next"
      /\ iter'.sawSet
      /\ iter'.sawCall = "none"
      /\ iter.status \notin {"done", "error"}) =>
       /\ last'.err = NoError
       /\ IF RowsAhead(iter) = {}
          THEN iter'.status = "done"
          ELSE /\ iter'.status = "yield"
               /\ iter'.priorDBKey = StrMin(RowsAhead(iter))
               /\ last'.key = dbKeyToKey(handles[iter.h], iter'.priorDBKey).key
               /\ iter.needValue =>
                    iter'.yielded[Len(iter'.yielded)].value =
                      unserialize(store[iter'.priorDBKey])]_vars

\* After a first next(), set gave the key 2, not yet visited, the value "y",
\* and the next() after it yielded 2 with "y".
C24_Witness ==
  /\ last.op = "next"
  /\ last.err = NoError
  /\ iter.sawSet
  /\ iter.sawCall = "none"
  /\ iter.needValue
  /\ Len(iter.yielded) = 2
  /\ iter.yielded[2] = [key |-> NumTwo, value |-> KStr(<< "y" >>)]

\* C26: a public delete that fails with SchemaViolation or NotFound leaves
\* the store, the reference counts, the recognizers and the handle, its
\* generation counter included, as they were; and a next() of an iterator
\* open on the handle, after which only failing calls were made, does not
\* fail with ConcurrentModification.
C26_FailedDeleteKeepsGeneration ==
  [][/\ (last'.op = "delete" /\ last'.err \in {"SchemaViolation", "NotFound"}) =>
          UNCHANGED << store, refcount, recognizers, handles, abs >>
     /\ (/\ last'.op = "next"
         /\ iter'.sawCall = "threw"
         /\ iter.status \notin {"done", "error"}) =>
          last'.err # "ConcurrentModification"]_vars

\* After a next() that yielded, the only calls on the handle failed and left
\* every row as it was, and the next() after them failed with
\* ConcurrentModification.
C26_Witness ==
  /\ last.op = "next"
  /\ last.err = "ConcurrentModification"
  /\ iter.sawCall = "threw"
  /\ iter.prevStatus = "yield"
  /\ ~iter.disturbed

\* The keys of the open iterator's collection that match its key pattern.
MatchingKeys == {k \in DOMAIN abs[iter.h] : matches(k, iter.keyPatt)}

\* C27: draining keys(keyPatt), values(keyPatt) or entries(keyPatt) with no
\* intervening mutation yields exactly the present entries whose key matches
\* keyPatt, each once, in ascending order of their encoded keys.
C27_PatternYieldsMatches ==
  (Drained /\ iter.boundedStore) =>
    /\ YieldedKeys = MatchingKeys
    /\ Len(iter.yielded) = Cardinality(MatchingKeys)
    /\ \A i, j \in DOMAIN iter.yielded :
         i < j => StrLt(EncodedKey(iter.h, iter.yielded[i].key),
                        EncodedKey(iter.h, iter.yielded[j].key))

\* keys(-1.5) was drained on a collection that holds -1.5 and yielded
\* nothing.
C27_Witness ==
  /\ Drained /\ iter.boundedStore
  /\ iter.keyPatt = MKey(NumMinusOneAndHalf)
  /\ NumMinusOneAndHalf \in DOMAIN abs[iter.h]
  /\ iter.yielded = << >>

\* The rows inside the rank cover of iterator it.
RowsInCover(it) ==
  LET hd == handles[it.h]
      encoded == IF it.keyPatt.m = "key"
                 THEN encodeKey(store, hd, it.keyPatt.key).s
                 ELSE << >>
      cover == getRankCover(it.keyPatt, encoded)
  IN  {k \in DOMAIN store : /\ StrLe(prefix(hd, cover[1]), k)
                            /\ StrLt(k, prefix(hd, cover[2]))}

LooseProbe ==
  LET hd == handles[iter.h]
      encoded == IF iter.keyPatt.m = "key"
                 THEN encodeKey(store, hd, iter.keyPatt.key).s
                 ELSE << >>
  IN  vatstoreGetAfterFrom(store, iter.priorDBKey,
                           prefix(hd, getRankCover(iter.keyPatt, encoded)[1]))

CoverEnd ==
  LET hd == handles[iter.h]
      encoded == IF iter.keyPatt.m = "key"
                 THEN encodeKey(store, hd, iter.keyPatt.key).s
                 ELSE << >>
  IN  prefix(hd, getRankCover(iter.keyPatt, encoded)[2])

\* C29: when the probe of a next() returns a row whose db key is at or
\* beyond prefix + hi, the next() reports done.
C29_ProbeBeyondCoverEnds ==
  (/\ iter.open /\ ~iter.boundedStore
   /\ last.op = "next" /\ last.err = NoError
   /\ iter.status # "yield"
   /\ LooseProbe # << >>
   /\ ~StrLt(LooseProbe[1], CoverEnd)) =>
    iter.status = "done"

\* keys() on a vat store that does not enforce the upper bound: after the
\* last entry the probe returned the |keySchema row, beyond prefix + '{', and
\* the next() went on probing from the same priorDBKey without end.
C29_Witness ==
  /\ iter.open /\ ~iter.boundedStore
  /\ last.op = "next"
  /\ iter.keyPatt = MAny
  /\ iter.status = "hang"
  /\ Len(iter.yielded) = 1
  /\ LooseProbe[1] = prefix(handles[iter.h], KeySchemaRow)

\* C30: on a vat store that enforces the bounds of vatstoreGetAfter, every
\* next() that yields has moved priorDBKey strictly forward, so a drain
\* yields no more often than there are entry rows and, its consumer going on
\* to call next(), reaches done (or fails, or is dropped); a clear that
\* returns has left no entry whose key matches its pattern, and a disposer
\* that returns has left no row under the collection's prefix.
C30_DrainAndSweepTerminate ==
  /\ [][\A h \in DOMAIN handles :
          /\ (/\ last'.op = "next" /\ last'.h = h
              /\ iter.boundedStore
              /\ iter'.status = "yield") =>
               StrLt(iter.priorDBKey, iter'.priorDBKey)
          /\ (last'.op = "clear" /\ last'.h = h /\ last'.err = NoError) =>
               \A k \in {r \in DOMAIN store' : StartsWith(r, dbKeyPrefix(handles[h]))} :
                 \/ k[Len(dbKeyPrefix(handles[h])) + 1] = "|"
                 \/ ~matches(dbKeyToKey(handles[h], k).key, last'.patt)
          /\ (last'.op = "dispose" /\ last'.h = h /\ last'.err = NoError) =>
               \A k \in DOMAIN store' : ~StartsWith(k, dbKeyPrefix(handles[h]))]_vars
  /\ []((iter.open /\ iter.boundedStore /\ ~iter.disturbed) =>
          Len(iter.yielded) <= Cardinality(EntryRows(iter.h)))
  /\ (iter.open /\ iter.boundedStore) ~>
       (~iter.open \/ iter.status \in {"done", "error"})

\* A drain of two entries has reached done at its third next().
C30_Witness ==
  /\ Drained /\ iter.boundedStore
  /\ iter.prevStatus = "yield"
  /\ Len(iter.yielded) = 2
  /\ Cardinality(EntryRows(iter.h)) = 2

\* The collection ID in the external identifier of handle h, and the prefix
\* vc.<collectionID>. of its collection.
CollectionIDOf(h) == NatToString(parseVatSlot(handles[h].vobjID).subid)
CollectionPrefix(h) == << "v", "c", "." >> \o CollectionIDOf(h) \o << "." >>

\* C31: init, set, delete, clear, the reclamation callback and the disposer
\* on a handle write and delete only rows whose key starts with
\* vc.<collectionID>. of the handle's collection: every other row, the rows
\* of other collections and the storeKindIDTable row among them, stays as it
\* was.
C31_PrefixIsolation ==
  [][\A h \in DOMAIN handles :
       (/\ last'.h = h
        /\ last'.op \in {"init", "set", "delete", "clear", "reclaim", "dispose"}) =>
         \A k \in DOMAIN store \cup DOMAIN store' :
           StartsWith(k, CollectionPrefix(h)) \/
             (k \in DOMAIN store /\ k \in DOMAIN store' /\ store'[k] = store[k])]_vars

\* The handle that reanimateCollection returned for collection 1, labelled
\* 'L', has written the entry of the key 2 under vc.L. .
C31_Witness ==
  /\ last.op = "init" /\ last.err = NoError /\ last.key = NumTwo
  /\ CollectionIDOf(last.h) = << "1" >>
  /\ dbKeyPrefix(handles[last.h]) = << "v", "c", ".", "L", "." >>
  /\ << "v", "c", ".", "L", "." >> \o encodeKey(store, handles[last.h], NumTwo).s
       \in DOMAIN store

\* C32: a set that returns leaves every row but the entry row of its key as
\* it was, writes there the serialized value, and changes the reference
\* counts by updateReferenceCounts(before.slots, after.slots) and nothing
\* else: the recognizers, the size and the generation counter are unchanged,
\* and so is the reference held for the key itself.
C32_SetChangesOneRow ==
  [][\A h \in DOMAIN handles :
       (last'.op = "set" /\ last'.h = h /\ last'.err = NoError) =>
         LET dbKey == keyToDBKey(store, handles[h], last'.key).s
         IN  /\ dbKey \in DOMAIN store
             /\ DOMAIN store' = DOMAIN store
             /\ \A k \in DOMAIN store : k # dbKey => store'[k] = store[k]
             /\ store'[dbKey] = serialize(abs'[h][last'.key])
             /\ refcount' = updateReferenceCounts(refcount, store[dbKey].slots,
                                                  store'[dbKey].slots)
             /\ recognizers' = recognizers
             /\ handles' = handles]_vars

\* On a strong map, set has given the remotable key R1 the value R1 in place
\* of a string: R1 is referenced once as the key and once by the value.
C32_Witness ==
  /\ last.op = "set" /\ last.err = NoError
  /\ last.key = KRem(Slot1)
  /\ ~hasWeakKeys(handles[last.h].kindName)
  /\ abs[last.h][last.key] = KRem(Slot1)
  /\ refcount[Slot1] = 2

\* get(key) succeeds on handle h, and the entry row of key exists.
GetSucceeds(h, key) == get(World, h, key).err = NoError
EntryRowExists(h, key) ==
  /\ keyToDBKey(store, handles[h], key).err = NoError
  /\ keyToDBKey(store, handles[h], key).s \in DOMAIN store

\* C33: in every state and for every key that matches the key schema, has
\* returns true exactly when get succeeds, and get succeeds exactly when the
\* entry row of the key exists.
C33_HasAgreesWithGet ==
  \A h \in DOMAIN handles : Live(h) =>
    \A key \in LookupKeys : matches(key, handles[h].keySchema) =>
      /\ Has(h, key) <=> GetSucceeds(h, key)
      /\ GetSucceeds(h, key) <=> EntryRowExists(h, key)

\* init(R1, v) has stopped at serialize(v): R1 holds an ordinal and has no
\* entry row; has(R1) is true and get(R1) fails.
C33_Witness ==
  /\ last.op = "init" /\ last.err = "MarshalError" /\ last.key = KRem(Slot1)
  /\ getOrdinal(store, handles[last.h], last.key) # Undefined
  /\ Has(last.h, last.key)
  /\ ~GetSucceeds(last.h, last.key)
  /\ ~EntryRowExists(last.h, last.key)

\* C34, as stated: when init, delete or clear returned on the handle after
\* the iterator was obtained and before its first next(), that first next()
\* fails with ConcurrentModification.
C34_CapturedWhenObtained ==
  (/\ iter.open /\ last.op = "next"
   /\ iter.prevStatus = "fresh"
   /\ iter.sawCall = "returned") =>
    iter.status = "error" /\ iter.err = "ConcurrentModification"

\* C34, amended: generationAtStart is captured at the first next(). Whatever
\* was called on the handle since the iterator was obtained, the first next()
\* takes the generation the handle has then, does not fail, and yields the
\* first matching entry the collection holds then, or reports done when
\* there is none.
C34_CapturedAtFirstNext ==
  [][(last'.op = "next" /\ iter.status = "fresh" /\ iter.boundedStore) =>
       /\ last'.err = NoError
       /\ iter'.generationAtStart = handles[iter.h].currentGenerationNumber
       /\ IF RowsAhead(iter) = {}
          THEN iter'.status = "done"
          ELSE /\ iter'.status = "yield"
               /\ iter'.priorDBKey = StrMin(RowsAhead(iter))]_vars

\* An init returned after keys() was called and before its first next(),
\* and that next() yielded.
C34_Witness ==
  /\ iter.open /\ last.op = "next"
  /\ iter.prevStatus = "fresh"
  /\ iter.sawCall = "returned"
  /\ iter.status = "yield"
  /\ iter.generationAtStart = handles[iter.h].currentGenerationNumber
  /\ iter.generationAtStart > 0

\* What the generation counter does at every step, iterators aside: it never
\* decreases; has, get and set leave it as it is; an init that returns, a
\* public delete and a clear that returns each add exactly one.
GenerationSteps ==
  \A h \in DOMAIN handles \cap DOMAIN handles' :
    LET before == handles[h].currentGenerationNumber
        after == handles'[h].currentGenerationNumber
    IN  /\ after >= before
        /\ (last'.h = h /\ last'.op \in {"has", "get", "set"}) => after = before
        /\ (last'.h = h /\ last'.op = "init" /\ last'.err = NoError) => after = before + 1
        /\ (last'.h = h /\ last'.op = "delete") => after = before + 1
        /\ (last'.h = h /\ last'.op = "clear" /\ last'.err = NoError) => after = before + 1

\* C35, as stated: the generation counter moves as GenerationSteps says, and
\* the next() that follows a clear on the handle of an iterator opened before
\* the clear fails with ConcurrentModification.
C35_GenerationCounts ==
  [][/\ GenerationSteps
     /\ (/\ last.op = "clear" /\ last.err = NoError
         /\ iter.open /\ iter.h = last.h
         /\ last'.op = "next") =>
          last'.err = "ConcurrentModification"]_vars

\* C35, amended: the generation counter moves as GenerationSteps says, and
\* the next() that follows a clear on the handle of an iterator whose last
\* next() yielded an element fails with ConcurrentModification.
C35_GenerationCountsLive ==
  [][/\ GenerationSteps
     /\ (/\ last.op = "clear" /\ last.err = NoError
         /\ iter.open /\ iter.h = last.h
         /\ iter.status = "yield"
         /\ last'.op = "next") =>
          last'.err = "ConcurrentModification"]_vars

\* A clear of an empty collection has returned and taken the generation
\* counter from 0 to 1.
C35_Witness ==
  /\ last.op = "clear" /\ last.err = NoError
  /\ handles[last.h].currentGenerationNumber = 1
  /\ handles[last.h].size = 0
  /\ EntryRows(last.h) = {}

\* The state makeCollection is specified to leave for the collection it has
\* just made, handle h: its three metadata rows and nothing else under its
\* prefix, no entry, and the identifier o+<kindID>/<collectionID>.
FreshlyMade(h) ==
  /\ CollectionRows(h) = {prefix(handles[h], LabelRow),
                          prefix(handles[h], KeySchemaRow),
                          prefix(handles[h], NextOrdinalRow)}
  /\ vatstoreGet(store, prefix(handles[h], NextOrdinalRow)) = Raw(<< "1" >>)
  /\ vatstoreGet(store, prefix(handles[h], LabelRow)) = Raw(handles[h].label)
  /\ \A key \in LookupKeys : ~has(World, h, key).value
  /\ handles[h].size = 0
  /\ handles[h].vobjID =
       MakeVobjID(storeKindInfo[handles[h].kindName],
                  StringToNat(handles[h].collectionID))

\* C36: immediately after makeCollection(label, kindName, keySchema) the rows
\* under vc.<collectionID>. are exactly |label, |keySchema and |nextOrdinal
\* with value "1", has is false for every key and size is 0, and the external
\* identifier is o+<kindID>/<collectionID> with kindID the registry ID of
\* kindName.
C36_FreshCollectionState ==
  last.op = "makeCollection" => FreshlyMade(Len(handles))

\* A collection has just been made in a process started over the store of an
\* earlier one: the rows under its prefix include the earlier collection's
\* ordinal row and entry row of the remotable, and has(remotable) is true.
C36_Witness ==
  /\ last.op = "makeCollection"
  /\ Len(handles) = 1
  /\ handles[1].kindName = "scalarMapStore"
  /\ prefix(handles[1], OrdinalRow(Slot1)) \in CollectionRows(1)
  /\ Cardinality(CollectionRows(1)) = 5
  /\ has(World, 1, KRem(Slot1)).value
  /\ handles[1].size = 0

\* The rows of handle h's collection in store st whose entry key begins with
\* '|': |label, |keySchema, |nextOrdinal and the ordinal rows |<slot>.
MetadataRows(st, h) ==
  {k \in DOMAIN st : StartsWith(k, prefix(handles[h], << "|" >>))}

\* The three rows makeCollection wrote for handle h.
CreationRows(h) ==
  {prefix(handles[h], LabelRow), prefix(handles[h], KeySchemaRow),
   prefix(handles[h], NextOrdinalRow)}

\* Row k is in both stores with the same content.
RowKept(st, st1, k) == k \in DOMAIN st /\ k \in DOMAIN st1 /\ st1[k] = st[k]

\* A next() that yields has decoded its key from a row that is no metadata
\* row.
YieldsNoMetadata ==
  (last'.op = "next" /\ iter'.status = "yield") =>
    /\ iter'.priorDBKey \in DOMAIN store
    /\ iter'.priorDBKey \notin MetadataRows(store, iter.h)

\* An init writes in the metadata rows only what its ordinal allocation
\* writes: |nextOrdinal and the |<slot> row of a remotable key; every other
\* metadata row is as it was and none is added.
InitWritesNoMetadata ==
  last'.op = "init" =>
    \A k \in MetadataRows(store, last'.h) \cup MetadataRows(store', last'.h) :
      \/ RowKept(store, store', k)
      \/ /\ passStyleOf(last'.key) = "remotable"
         /\ k \in {prefix(handles[last'.h], NextOrdinalRow),
                   prefix(handles[last'.h], OrdinalRow(getSlotForVal(last'.key)))}

\* C37, as stated: no iterator yields a key decoded from a metadata row,
\* clear deletes no |label, |keySchema, |nextOrdinal or |<slot> row, and no
\* init of a user key overwrites one.
C37_MetadataNeverEntries ==
  [][/\ YieldsNoMetadata
     /\ InitWritesNoMetadata
     /\ last'.op = "clear" =>
          \A k \in MetadataRows(store, last'.h) : RowKept(store, store', k)]_vars

\* C37, amended: no iterator yields a key decoded from a metadata row and no
\* init of a user key writes one; clear leaves |label, |keySchema and
\* |nextOrdinal as they were, and it deletes the ordinal row |<slot> exactly
\* of the remotable keys whose entry it deletes, never as an entry of its
\* own.
C37_MetadataOnlyWithItsEntry ==
  [][/\ YieldsNoMetadata
     /\ InitWritesNoMetadata
     /\ last'.op = "clear" =>
          /\ \A k \in CreationRows(last'.h) : RowKept(store, store', k)
          /\ MetadataRows(store', last'.h) \subseteq MetadataRows(store, last'.h)
          /\ \A slot \in AllSlots :
               LET row == prefix(handles[last'.h], OrdinalRow(slot))
                   entry == keyToDBKey(store, handles[last'.h], KRem(slot)).s
               IN  row \in DOMAIN store =>
                     IF row \in DOMAIN store'
                     THEN store'[row] = store[row] /\ RowKept(store, store', entry)
                     ELSE entry \in DOMAIN store /\ entry \notin DOMAIN store']_vars

\* The collection holds the string keys "|label" and "|o-1" and the
\* remotable of slot o-1, beside its metadata rows |label and |o-1, and an
\* iterator over every key has just yielded the string "|label".
C37_Witness ==
  /\ last.op = "next"
  /\ iter.status = "yield"
  /\ iter.keyPatt = MAny
  /\ last.key = KStr(<< "|", "l", "a", "b", "e", "l" >>)
  /\ DOMAIN abs[iter.h] =
       {KStr(<< "|", "l", "a", "b", "e", "l" >>), KStr(<< "|", "o", "-", "1" >>),
        KRem(Slot1)}
  /\ prefix(handles[iter.h], OrdinalRow(Slot1)) \in DOMAIN store
  /\ vatstoreGet(store, prefix(handles[iter.h], LabelRow)) = Raw(handles[iter.h].label)

\* What clear answers in the present state for a value pattern other than
\* "any": UnsupportedValuePattern, with the world as it was.
ClearRefuses(h, keyPatt, valuePatt) ==
  clear(World, h, keyPatt, valuePatt) =
    [World EXCEPT !.err = "UnsupportedValuePattern"]

=============================================================================
